---------------------------- MODULE Spec2Model ----------------------------
(***************************************************************************)
(* A model of the PDF editor's annotation store (editor-store.ts), of the  *)
(* export coordinate mapping (coordinate-utils.ts) and of the export       *)
(* merger PDFEditor.applyAnnotations (pdf-editor.ts).                      *)
(*                                                                         *)
(* JavaScript arrays are modelled as sequences; an index i of the source   *)
(* (0-based) is the element i + 1 of the sequence.                         *)
(***************************************************************************)
EXTENDS Integers, Sequences, FiniteSets, TLC

(***************************************************************************)
(* Bounds of the model.                                                    *)
(***************************************************************************)
\* the longest history (number of snapshots) the model lets the store build
MaxHist == 3
\* the longest page list the model lets addBlankPage build (loaded documents
\* have the lengths of DocSizes)
MaxPages == 1

(***************************************************************************)
(* The small sets the operations' arguments are drawn from.                *)
(***************************************************************************)
\* selectedAnnotation: null
NULL == 0
\* annotation ids (the store never checks that an added id is new)
AnnIds == {1, 2}
\* numPages of a loaded document; the i-th original page gets the id i, which
\* stands for `p-${i}-${Date.now()}` (a load replaces every page and clears the
\* annotations, so ids of different loads are never compared)
DocSizes == {0, 1, 2}
\* the ids of blank pages (`blank-${Date.now()}`)
BlankIds == 3..(2 + MaxPages)
PageIds == {1, 2} \cup BlankIds
\* the payload of an annotation, and the partial payload of an update
DataVals == {0, 1}

\* the annotations addAnnotation is called with: A on page 1, B on page 2 and
\* C on page 1, where C has the id of B (ids are `${prefix}-${Date.now()}`)
AnnA == [id |-> 1, pageId |-> 1, data |-> 0]
AnnB == [id |-> 2, pageId |-> 2, data |-> 0]
AnnC == [id |-> 2, pageId |-> 1, data |-> 0]
Annotation == {AnnA, AnnB, AnnC}

Min(a, b) == IF a < b THEN a ELSE b
Max(a, b) == IF a > b THEN a ELSE b

(***************************************************************************)
(* Array helpers, as the JavaScript built-ins compute them.                *)
(***************************************************************************)
\* arr[i] for an index inside the array
At(arr, i) == arr[i + 1]

\* arr.slice(0, end) for end >= 0
SliceTo(arr, end) == SubSeq(arr, 1, Min(end, Len(arr)))

\* the position Array.prototype.splice starts at: a negative start counts
\* from the end, and the result is clamped to 0..length
SpliceStart(arr, start) ==
    IF start < 0 THEN Max(Len(arr) + start, 0) ELSE Min(start, Len(arr))

\* arr after arr.splice(start, 0, item)
SpliceInsert(arr, start, item) ==
    LET s == SpliceStart(arr, start)
    IN  SubSeq(arr, 1, s) \o <<item>> \o SubSeq(arr, s + 1, Len(arr))

\* arr after arr.splice(start, 1), for a start at which an element exists
SpliceRemove(arr, start) ==
    LET s == SpliceStart(arr, start)
    IN  SubSeq(arr, 1, s) \o SubSeq(arr, s + 2, Len(arr))

\* arr.map(f)
MapSeq(arr, f(_)) == [i \in 1..Len(arr) |-> f(arr[i])]

VARIABLES
    \* ---- the store (EditorState) ----
    pages,              \* PageInfo[]
    currentPage,        \* 1-based position in pages
    totalPages,
    annotations,        \* the live Annotation[]
    selectedAnnotation, \* an annotation id, or NULL
    history,            \* Annotation[][]
    historyIndex,       \* 0-based cursor into history
    \* ---- history variables of the store (not program state) ----
    last,               \* the last store call, classified
    run,                \* the mutation and undo calls made since the store was loaded
    \* ---- one call of mapToExportCoords ----
    cRotation,          \* rotation
    cPage,              \* <<pageWidth, pageHeight>>
    cRect,              \* the visual rectangle [x, y, width, height]
    cDone,              \* the call has returned
    cOut,               \* the rectangle it returned
    \* ---- one run of PDFEditor.applyAnnotations ----
    eAnnotations,       \* annotations, as passed
    ePagesInfo,         \* pagesInfo, as passed
    eDocPages,          \* pdfDoc.getPages().length
    ePc,                \* where the run is: idle, pass1, pass2, rotate, done
    eSorted,            \* sorted
    eI,                 \* the position of the running loop, 1-based
    eOps,               \* the calls made on the pages of pdfDoc, in order
    \* ---- one native text edit, from the click to pass 1 of the export ----
    nItem,              \* the text group clicked (NativeTextItem)
    nRotation,          \* pageInfo.rotation at the export
    nAnn,               \* data of the annotation of the edit, or NoAnn
    nPc,                \* idle, clicked, edited, exported
    nWhites,            \* the white rectangles pass 1 painted, in page coordinates
    \* ---- NativeTextLayer: clicks and in-place edits of the text groups ----
    tAnns,              \* the native edit annotations added: <<pageId, originalTextId>>
    tTool,              \* activeTool
    tEditingId,         \* editingId: the group edited in place, or NULL
    tPageId,            \* currentPageInfo.id
    \* ---- a shape drawn by pointer input, the page rotated, the export ----
    pScale,             \* scale
    pDown,              \* <<clientX, clientY>> of the pointer down
    pUp,                \* <<clientX, clientY>> of the pointer up
    pRotation,          \* pages[currentPage - 1].rotation
    pDrawnAt,           \* (history) the rotation the page was shown at when the shape was drawn
    pStored,            \* data.x, data.y, data.width, data.height of the annotation
    pPc,                \* idle, drawn, exported
    pOut,               \* the rectangle applyAnnotations paints
    \* ---- the render requests of the viewer on its canvas ----
    vCount,             \* the number of requests made so far; request k is the k-th
    vPc,                \* where each request is: new, waitExisting, getPage, rendering, fetchText, done
    vCancelled,         \* isCancelled of each request
    vTask,              \* pdfRenderTask of each request: none, running, cancelled
    vWaitFor,           \* the request whose promise a request awaits (existingTask), or 0
    vActive,            \* activeRenderTasks.get(canvas): a request, or 0
    vItems,             \* nativeTextItems: the request whose text content it holds, or 0
    \* ---- the image cache (LRUImageCache) ----
    iMaxSize,           \* maxSize
    iCache,             \* cache: the image of each cached key
    iOrder,             \* accessOrder: the keys, the last accessed last
    iRef,               \* the keys of a reference LRU map given the same calls, the most recent last
    iLast,              \* the last call if it was clearByPage: its argument and what it found
    \* ---- the fonts of the export (applyAnnotations) ----
    fTexts,             \* data.text of each text annotation, as code points
    fOutcome,           \* what becomes of the Unicode fallback font when it is asked for
    fCjkFont,           \* cjkFont is not null
    fPc,                \* start, fonts, drawn, returned, thrown
    fDrawn,             \* the page.drawText calls made: font and line
    \* ---- the ids of the annotations the tools create ----
    kNow,               \* Date.now()
    kTemp,              \* tempAnnotation.current of useEditorTools: an id, or NoTemp
    kAnnotations,       \* the annotations of the store: id and data
    \* ---- the rotation of the pages (PageInfo.rotation) ----
    gRotation,          \* the rotation of each page of the list
    gCurrentPage        \* currentPage

storeVars == <<pages, currentPage, totalPages, annotations, selectedAnnotation,
               history, historyIndex>>
ghostVars == <<last, run>>
coordVars == <<cRotation, cPage, cRect, cDone, cOut>>
exportVars == <<eAnnotations, ePagesInfo, eDocPages, ePc, eSorted, eI, eOps>>
nativeVars == <<nItem, nRotation, nAnn, nPc, nWhites>>

textLayerVars == <<tAnns, tTool, tEditingId, tPageId>>
pointerVars == <<pScale, pDown, pUp, pRotation, pDrawnAt, pStored, pPc, pOut>>
renderVars == <<vCount, vPc, vCancelled, vTask, vWaitFor, vActive, vItems>>
cacheVars == <<iMaxSize, iCache, iOrder, iRef, iLast>>
fontVars == <<fTexts, fOutcome, fCjkFont, fPc, fDrawn>>
idsVars == <<kNow, kTemp, kAnnotations>>
rotationVars == <<gRotation, gCurrentPage>>
\* what a step of one model leaves alone: the variables of the other models
notStore == <<coordVars, exportVars, nativeVars, textLayerVars, pointerVars, renderVars, cacheVars, fontVars, idsVars, rotationVars>>
notCoord == <<storeVars, ghostVars, exportVars, nativeVars, textLayerVars, pointerVars, renderVars, cacheVars, fontVars, idsVars, rotationVars>>
notExport == <<storeVars, ghostVars, coordVars, nativeVars, textLayerVars, pointerVars, renderVars, cacheVars, fontVars, idsVars, rotationVars>>
notNative == <<storeVars, ghostVars, coordVars, exportVars, textLayerVars, pointerVars, renderVars, cacheVars, fontVars, idsVars, rotationVars>>
notTextLayer == <<storeVars, ghostVars, coordVars, exportVars, nativeVars, pointerVars, renderVars, cacheVars, fontVars, idsVars, rotationVars>>
notPointer == <<storeVars, ghostVars, coordVars, exportVars, nativeVars, textLayerVars, renderVars, cacheVars, fontVars, idsVars, rotationVars>>
notRender == <<storeVars, ghostVars, coordVars, exportVars, nativeVars, textLayerVars, pointerVars, cacheVars, fontVars, idsVars, rotationVars>>
notCache == <<storeVars, ghostVars, coordVars, exportVars, nativeVars, textLayerVars, pointerVars, renderVars, fontVars, idsVars, rotationVars>>
notFont == <<storeVars, ghostVars, coordVars, exportVars, nativeVars, textLayerVars, pointerVars, renderVars, cacheVars, idsVars, rotationVars>>
notIds == <<storeVars, ghostVars, coordVars, exportVars, nativeVars, textLayerVars, pointerVars, renderVars, cacheVars, fontVars, rotationVars>>
notRotation == <<storeVars, ghostVars, coordVars, exportVars, nativeVars, textLayerVars, pointerVars, renderVars, cacheVars, fontVars, idsVars>>


(***************************************************************************)
(* History variables.  last describes the store call that led to the       *)
(* state: for a mutation (addAnnotation, removeAnnotation,                 *)
(* updateAnnotation) the cursor it found, the snapshots up to that cursor  *)
(* and whether there were snapshots beyond it (cut); for undo and redo the *)
(* cursor, the history and the whole store they found; nothing for any     *)
(* other call.  run counts the mutation calls made on a freshly loaded     *)
(* store (n) and the undo calls that followed them and changed the store   *)
(* (u).                                                                    *)
(***************************************************************************)
Mutations == {"addAnnotation", "removeAnnotation", "updateAnnotation"}
Loads == {"setPdfDocument", "reset"}
FreshRun == [kind |-> "mut", n |-> 0, u |-> 0]
OtherRun == [kind |-> "other", n |-> 0, u |-> 0]

NoCall == [op |-> "other", cut |-> FALSE, historyIndex |-> 0, history |-> <<>>, store |-> <<>>]

LastAfter(op) ==
    IF op \in Mutations
    THEN [op |-> "mutation", cut |-> historyIndex < Len(history) - 1,
          historyIndex |-> historyIndex,
          history |-> SubSeq(history, 1, historyIndex + 1), store |-> <<>>]
    ELSE IF op \in {"undo", "redo"}
    THEN [op |-> op, cut |-> FALSE, historyIndex |-> historyIndex,
          history |-> history, store |-> storeVars]
    ELSE NoCall

RunAfter(op) ==
    IF op \in Loads THEN FreshRun
    ELSE IF op \in Mutations
         THEN (IF run.kind = "mut" THEN [run EXCEPT !.n = @ + 1] ELSE OtherRun)
    ELSE IF op = "undo"
         THEN (IF run.kind \in {"mut", "undo"}
               THEN [kind |-> "undo", n |-> run.n,
                     u |-> run.u + (IF storeVars' # storeVars THEN 1 ELSE 0)]
               ELSE OtherRun)
    ELSE OtherRun

\* the last conjunct of every store action: it reads the primed store variables;
\* a store call leaves the variables of the other two models alone
Note(op) ==
    /\ last' = LastAfter(op)
    /\ run' = RunAfter(op)
    /\ UNCHANGED notStore

(***************************************************************************)
(* The store after construction.                                           *)
(***************************************************************************)
StoreInit ==
    /\ pages = <<>>
    /\ currentPage = 1
    /\ totalPages = 0
    /\ annotations = <<>>
    /\ selectedAnnotation = NULL
    /\ history = << <<>> >>
    /\ historyIndex = 0
    /\ last = NoCall
    /\ run = FreshRun

(***************************************************************************)
(* The store's actions.                                                    *)
(***************************************************************************)
\* the i-th page of a freshly loaded document
InitialPage(i) == [id |-> i, type |-> "original"]

setPdfDocument(numPages) ==
    /\ pages' = [i \in 1..numPages |-> InitialPage(i)]
    /\ totalPages' = numPages
    /\ currentPage' = 1
    /\ annotations' = <<>>
    /\ history' = << <<>> >>
    /\ historyIndex' = 0
    /\ UNCHANGED selectedAnnotation
    /\ Note("setPdfDocument")

setCurrentPage(page) ==
    /\ IF page >= 1 /\ page <= totalPages
       THEN currentPage' = page
       ELSE UNCHANGED currentPage
    /\ UNCHANGED <<pages, totalPages, annotations, selectedAnnotation,
                   history, historyIndex>>
    /\ Note("setCurrentPage")

\* addAnnotation pushing onto the whole history, the redo tail kept
addAnnotation_keepTail(annotation) ==
    /\ historyIndex + 2 <= MaxHist
    /\ LET newAnnotations == Append(annotations, annotation)
           newHistory == Append(history, newAnnotations)
       IN  /\ annotations' = newAnnotations
           /\ history' = newHistory
           /\ historyIndex' = historyIndex + 1
    /\ UNCHANGED <<pages, currentPage, totalPages, selectedAnnotation>>
    /\ Note("addAnnotation")

addAnnotation(annotation) ==
    /\ historyIndex + 2 <= MaxHist
    /\ LET newAnnotations == Append(annotations, annotation)
           newHistory == Append(SliceTo(history, historyIndex + 1), newAnnotations)
       IN  /\ annotations' = newAnnotations
           /\ history' = newHistory
           /\ historyIndex' = historyIndex + 1
    /\ UNCHANGED <<pages, currentPage, totalPages, selectedAnnotation>>
    /\ Note("addAnnotation")

removeAnnotation(id) ==
    /\ historyIndex + 2 <= MaxHist
    /\ LET keep(a) == a.id # id
           newAnnotations == SelectSeq(annotations, keep)
           newHistory == Append(SliceTo(history, historyIndex + 1), newAnnotations)
       IN  /\ annotations' = newAnnotations
           /\ history' = newHistory
           /\ historyIndex' = historyIndex + 1
    /\ selectedAnnotation' = NULL
    /\ UNCHANGED <<pages, currentPage, totalPages>>
    /\ Note("removeAnnotation")

\* { ...a.data, ...data }: the fields of the update replace those of the annotation
MergeData(old, data) == data

\* updateAnnotation as it was before it pushed history (CODE_REVIEW.md, issue 1)
updateAnnotation_noHistory(id, data) ==
    /\ historyIndex + 2 <= MaxHist
    /\ LET upd(a) == IF a.id = id THEN [a EXCEPT !.data = MergeData(a.data, data)] ELSE a
       IN  annotations' = MapSeq(annotations, upd)
    /\ UNCHANGED <<pages, currentPage, totalPages, selectedAnnotation, history, historyIndex>>
    /\ Note("updateAnnotation")

updateAnnotation(id, data) ==
    /\ historyIndex + 2 <= MaxHist
    /\ LET upd(a) == IF a.id = id THEN [a EXCEPT !.data = MergeData(a.data, data)] ELSE a
           newAnnotations == MapSeq(annotations, upd)
           newHistory == Append(SliceTo(history, historyIndex + 1), newAnnotations)
       IN  /\ annotations' = newAnnotations
           /\ history' = newHistory
           /\ historyIndex' = historyIndex + 1
    /\ UNCHANGED <<pages, currentPage, totalPages, selectedAnnotation>>
    /\ Note("updateAnnotation")

\* selectAnnotation recording the selection as a step of the history
selectAnnotation_undoable(id) ==
    /\ historyIndex + 2 <= MaxHist
    /\ selectedAnnotation' = id
    /\ history' = Append(SliceTo(history, historyIndex + 1), annotations)
    /\ historyIndex' = historyIndex + 1
    /\ UNCHANGED <<pages, currentPage, totalPages, annotations>>
    /\ Note("selectAnnotation")

selectAnnotation(id) ==
    /\ selectedAnnotation' = id
    /\ UNCHANGED <<pages, currentPage, totalPages, annotations, history, historyIndex>>
    /\ Note("selectAnnotation")

\* undo() without its guard: at the bottom it reads history[-1], which is undefined
UndoResult_noGuard(h, hi, anns) ==
    [annotations |-> IF hi > 0 THEN At(h, hi - 1) ELSE <<>>, historyIndex |-> hi - 1]

\* what undo() sets, from the history h, the cursor hi and the live array anns
UndoResult(h, hi, anns) ==
    IF hi > 0
    THEN [annotations |-> At(h, hi - 1), historyIndex |-> hi - 1]
    ELSE [annotations |-> anns, historyIndex |-> hi]

undo ==
    /\ LET r == UndoResult(history, historyIndex, annotations)
       IN  /\ annotations' = r.annotations
           /\ historyIndex' = r.historyIndex
    /\ UNCHANGED <<pages, currentPage, totalPages, selectedAnnotation, history>>
    /\ Note("undo")

\* redo() advancing the cursor but reading the snapshot it leaves
RedoResult_staleSnapshot(h, hi, anns) ==
    IF hi < Len(h) - 1
    THEN [annotations |-> At(h, hi), historyIndex |-> hi + 1]
    ELSE [annotations |-> anns, historyIndex |-> hi]

\* what redo() sets
RedoResult(h, hi, anns) ==
    IF hi < Len(h) - 1
    THEN [annotations |-> At(h, hi + 1), historyIndex |-> hi + 1]
    ELSE [annotations |-> anns, historyIndex |-> hi]

redo ==
    /\ LET r == RedoResult(history, historyIndex, annotations)
       IN  /\ annotations' = r.annotations
           /\ historyIndex' = r.historyIndex
    /\ UNCHANGED <<pages, currentPage, totalPages, selectedAnnotation, history>>
    /\ Note("redo")

\* atIndex is an index, or -1 for a call without argument (undefined)
NoIndex == -1

\* `blank-${Date.now()}`: the clock has advanced since the pages of the list were
\* created, so the id is new among them.  Nothing but the page list holds the id
\* of a blank page (annotations are on pages 1 and 2), so the least id no page
\* has stands for it.
NewBlankId ==
    LET used == { pages[i].id : i \in 1..Len(pages) }
    IN  CHOOSE id \in BlankIds \ used : \A other \in BlankIds \ used : id <= other

addBlankPage(atIndex) ==
    /\ Len(pages) < MaxPages
    /\ LET newPage == [id |-> NewBlankId, type |-> "blank"]
           insertIndex == IF atIndex # NoIndex THEN atIndex ELSE currentPage
           newPages == SpliceInsert(pages, insertIndex, newPage)
       IN  /\ pages' = newPages
           /\ totalPages' = Len(newPages)
           /\ currentPage' = insertIndex + 1
    /\ UNCHANGED <<annotations, selectedAnnotation, history, historyIndex>>
    /\ Note("addBlankPage")

removePage(pageId) ==
    /\ IF Len(pages) <= 1
       THEN UNCHANGED <<pages, totalPages, currentPage, annotations>>
       ELSE LET keepPage(p) == p.id # pageId
                keepAnn(a) == a.pageId # pageId
                newPages == SelectSeq(pages, keepPage)
                newCurrentPage == IF currentPage > Len(newPages)
                                  THEN Len(newPages) ELSE currentPage
                newAnnotations == SelectSeq(annotations, keepAnn)
            IN  /\ pages' = newPages
                /\ totalPages' = Len(newPages)
                /\ currentPage' = newCurrentPage
                /\ annotations' = newAnnotations
    /\ UNCHANGED <<selectedAnnotation, history, historyIndex>>
    /\ Note("removePage")

\* fromIndex and toIndex are positions of pages (the drag and drop of the sidebar)
movePage(fromIndex, toIndex) ==
    /\ LET movedPage == At(pages, fromIndex)
           newPages == SpliceInsert(SpliceRemove(pages, fromIndex), toIndex, movedPage)
       IN  /\ pages' = newPages
           /\ currentPage' = toIndex + 1
    /\ UNCHANGED <<totalPages, annotations, selectedAnnotation, history, historyIndex>>
    /\ Note("movePage")

clearAnnotations ==
    /\ annotations' = <<>>
    /\ history' = << <<>> >>
    /\ historyIndex' = 0
    /\ selectedAnnotation' = NULL
    /\ UNCHANGED <<pages, currentPage, totalPages>>
    /\ Note("clearAnnotations")

reset ==
    /\ pages' = <<>>
    /\ currentPage' = 1
    /\ totalPages' = 0
    /\ annotations' = <<>>
    /\ selectedAnnotation' = NULL
    /\ history' = << <<>> >>
    /\ historyIndex' = 0
    /\ Note("reset")

StoreNext ==
    \/ \E numPages \in DocSizes : setPdfDocument(numPages)
    \/ \E page \in 0..(Len(pages) + 1) : setCurrentPage(page)
    \/ \E annotation \in Annotation : addAnnotation(annotation)
    \/ \E id \in AnnIds : removeAnnotation(id)
    \/ \E id \in AnnIds, data \in DataVals : updateAnnotation(id, data)
    \/ \E id \in {AnnA.id, NULL} : selectAnnotation(id)
    \/ undo
    \/ redo
    \/ \E atIndex \in {NoIndex} \cup (0..Len(pages)) : addBlankPage(atIndex)
    \/ \E pageId \in PageIds : removePage(pageId)
    \/ \E fromIndex \in 0..(Len(pages) - 1), toIndex \in 0..(Len(pages) - 1) :
           movePage(fromIndex, toIndex)
    \/ clearAnnotations
    \/ reset

\* the ids of the pages of the document
LivePageIds == { pages[i].id : i \in 1..Len(pages) }

\* the store driven as the viewer drives it: a document is loaded, every
\* annotation is added on a page of the document (pageId: currentPageInfo.id),
\* and annotations and pages are edited
LiveNext ==
    \/ \E numPages \in DocSizes : setPdfDocument(numPages)
    \/ \E annotation \in { a \in Annotation : a.pageId \in LivePageIds } :
           addAnnotation(annotation)
    \/ \E id \in AnnIds : removeAnnotation(id)
    \/ \E id \in AnnIds, data \in DataVals : updateAnnotation(id, data)
    \/ undo
    \/ redo
    \/ \E atIndex \in {NoIndex} \cup (0..Len(pages)) : addBlankPage(atIndex)
    \/ \E pageId \in PageIds : removePage(pageId)
    \/ \E fromIndex \in 0..(Len(pages) - 1), toIndex \in 0..(Len(pages) - 1) :
           movePage(fromIndex, toIndex)

\* the ids of the annotations of the live array
LiveAnnotationIds == { annotations[i].id : i \in 1..Len(annotations) }

\* the store driven by the selection: an annotation of the live array is
\* selected, or the selection is cleared, between additions, removals, undo,
\* redo, removals of pages, clearAnnotations and loads of a document
SelectionNext ==
    \/ \E id \in LiveAnnotationIds \cup {NULL} : selectAnnotation(id)
    \/ \E annotation \in Annotation : addAnnotation(annotation)
    \/ \E id \in AnnIds : removeAnnotation(id)
    \/ undo
    \/ redo
    \/ \E pageId \in PageIds : removePage(pageId)
    \/ clearAnnotations
    \/ \E numPages \in DocSizes : setPdfDocument(numPages)

(***************************************************************************)
(* mapToExportCoords (coordinate-utils.ts).                                *)
(***************************************************************************)
\* a % b of JavaScript, for b > 0: the result has the sign of a
JsRem(a, b) == IF a >= 0 THEN a % b ELSE 0 - ((0 - a) % b)

\* the 90 degree branch writing visualY to both coordinates
mapToExportCoords_dropX(visualX, visualY, visualWidth, visualHeight, pageWidth, pageHeight, rotation) ==
    LET rot == JsRem(rotation, 360)
    IN  IF rot = 90
        THEN [x |-> visualY, y |-> visualY,
              width |-> visualHeight, height |-> visualWidth]
        ELSE IF rot = 180
        THEN [x |-> pageWidth - visualX - visualWidth, y |-> visualY,
              width |-> visualWidth, height |-> visualHeight]
        ELSE IF rot = 270
        THEN [x |-> pageWidth - visualY - visualHeight,
              y |-> pageHeight - visualX - visualWidth,
              width |-> visualHeight, height |-> visualWidth]
        ELSE [x |-> visualX, y |-> pageHeight - visualY - visualHeight,
              width |-> visualWidth, height |-> visualHeight]

\* the 270 degree branch keeping width and height as they are
mapToExportCoords_noSwap(visualX, visualY, visualWidth, visualHeight, pageWidth, pageHeight, rotation) ==
    LET rot == JsRem(rotation, 360)
    IN  IF rot = 90
        THEN [x |-> visualY, y |-> visualX,
              width |-> visualHeight, height |-> visualWidth]
        ELSE IF rot = 180
        THEN [x |-> pageWidth - visualX - visualWidth, y |-> visualY,
              width |-> visualWidth, height |-> visualHeight]
        ELSE IF rot = 270
        THEN [x |-> pageWidth - visualY - visualHeight,
              y |-> pageHeight - visualX - visualWidth,
              width |-> visualWidth, height |-> visualHeight]
        ELSE [x |-> visualX, y |-> pageHeight - visualY - visualHeight,
              width |-> visualWidth, height |-> visualHeight]

mapToExportCoords(visualX, visualY, visualWidth, visualHeight, pageWidth, pageHeight, rotation) ==
    LET rot == JsRem(rotation, 360)
    IN  IF rot = 90
        THEN [x |-> visualY, y |-> visualX,
              width |-> visualHeight, height |-> visualWidth]
        ELSE IF rot = 180
        THEN [x |-> pageWidth - visualX - visualWidth, y |-> visualY,
              width |-> visualWidth, height |-> visualHeight]
        ELSE IF rot = 270
        THEN [x |-> pageWidth - visualY - visualHeight,
              y |-> pageHeight - visualX - visualWidth,
              width |-> visualHeight, height |-> visualWidth]
        ELSE [x |-> visualX, y |-> pageHeight - visualY - visualHeight,
              width |-> visualWidth, height |-> visualHeight]

\* the largest coordinate and the largest side of a small visual rectangle
MaxCoord == 2

Rect(x, y, w, h) == [x |-> x, y |-> y, width |-> w, height |-> h]
SmallRects == [x : 0..MaxCoord, y : 0..MaxCoord, width : 0..MaxCoord, height : 0..MaxCoord]
\* the rectangle of the scenario of the specification, on a 612 x 792 page
ScenarioRect == Rect(10, 10, 100, 50)
Rects == SmallRects \cup {ScenarioRect}
PageSizes == {<<2 * MaxCoord, 2 * MaxCoord + 1>>, <<2 * MaxCoord + 2, 2 * MaxCoord>>, <<612, 792>>}
\* the rotations of a page, and two values that only rotation % 360 tells apart
Rotations == {0, 90, 180, 270}
RotationArgs == Rotations \cup {450, -90}

ZeroRect == Rect(0, 0, 0, 0)

CoordIdle ==
    /\ cRotation = 0
    /\ cPage = <<612, 792>>
    /\ cRect = ZeroRect
    /\ cDone = FALSE
    /\ cOut = ZeroRect

CoordInit ==
    /\ cRotation \in RotationArgs
    /\ cPage \in PageSizes
    /\ cRect \in Rects
    /\ cDone = FALSE
    /\ cOut = ZeroRect

mapToExportCoordsCall ==
    /\ ~cDone
    /\ cOut' = mapToExportCoords(cRect.x, cRect.y, cRect.width, cRect.height,
                                 cPage[1], cPage[2], cRotation)
    /\ cDone' = TRUE
    /\ UNCHANGED <<cRotation, cPage, cRect>>
    /\ UNCHANGED notCoord

CoordNext ==
    mapToExportCoordsCall
(***************************************************************************)
(* PDFEditor.applyAnnotations (pdf-editor.ts).  eOps records every call    *)
(* made on a page of the document: the paint operations with the           *)
(* annotation (its position in the list passed) and its type, and          *)
(* setRotation.  The geometry and the colours of the paint operations are  *)
(* not recorded.                                                           *)
(***************************************************************************)
\* the most annotations the model passes to applyAnnotations
MaxAnns == 3

\* the payloads the model passes: type, pageId, and what the passes read of data
\*   text: lines = number of non-empty lines of data.text (0: data.text is empty)
\*   native: data.isNativeEdit with a data.nativeEditOrigin
\*   points: data.points.length;  shapeType;  image: png, bad (a PNG whose
\*   embedding throws), or gif (neither PNG nor JPEG)
Payload(type, pageId, lines, native, points, shapeType, image) ==
    [type |-> type, pageId |-> pageId, lines |-> lines, native |-> native,
     points |-> points, shapeType |-> shapeType, image |-> image]
Payloads ==
    { Payload("text", 1, 1, FALSE, 0, "none", "none"),
      Payload("text", 1, 2, TRUE, 0, "none", "none"),
      Payload("text", 1, 0, FALSE, 0, "none", "none"),
      Payload("text", 2, 1, FALSE, 0, "none", "none"),
      Payload("highlight", 1, 0, FALSE, 2, "none", "none"),
      Payload("draw", 1, 0, FALSE, 2, "none", "none"),
      Payload("eraser", 1, 0, FALSE, 2, "none", "none"),
      Payload("shape", 1, 0, FALSE, 0, "rectangle", "none"),
      Payload("shape", 1, 0, FALSE, 0, "circle", "none"),
      Payload("image", 1, 0, FALSE, 0, "none", "png"),
      Payload("image", 1, 0, FALSE, 0, "none", "bad"),
      Payload("image", 1, 0, FALSE, 0, "none", "gif"),
      Payload("highlight", 3, 0, FALSE, 2, "none", "none"),
      Payload("draw", 4, 0, FALSE, 2, "none", "none") }

\* the page list passed: page 1 is the first page of the document, shown
\* rotated by 90 degrees, page 2 is a blank page, and page 3 is the second page
\* of the document, shown rotated by 270 degrees; no page has the id 4
ExportPages ==
    << [id |-> 1, type |-> "original", originalIndex |-> 1, rotation |-> 90],
       [id |-> 2, type |-> "blank", originalIndex |-> 0, rotation |-> 0],
       [id |-> 3, type |-> "original", originalIndex |-> 2, rotation |-> 270] >>

\* pdfDoc.getPages().length: the document passed has no page, or only the first
\* page, or both pages of the list
DocPageCounts == {0, 1, 2}

\* the lists of at most MaxAnns payloads; the annotation at position i gets the id i
AnnotationLists ==
    UNION { [1..n -> Payloads] : n \in 0..MaxAnns }
WithIds(list) == [i \in 1..Len(list) |-> [id |-> i, p |-> list[i]]]

ExportIdle ==
    /\ eAnnotations = <<>>
    /\ ePagesInfo = <<>>
    /\ eDocPages = 0
    /\ ePc = "idle"
    /\ eSorted = <<>>
    /\ eI = 1
    /\ eOps = <<>>

ExportInit ==
    /\ eAnnotations \in { WithIds(l) : l \in AnnotationLists }
    /\ ePagesInfo = ExportPages
    /\ eDocPages \in DocPageCounts
    /\ ePc = "idle"
    /\ eSorted = <<>>
    /\ eI = 1
    /\ eOps = <<>>

\* layerOrder[type] ?? 3
layerOrder(type) ==
    CASE type = "highlight" -> 0
      [] type = "shape" -> 1
      [] type = "image" -> 2
      [] type = "text" -> 3
      [] type = "draw" -> 4
      [] type = "eraser" -> 5
      [] OTHER -> 3

\* the annotations of layer k, in the order of arr
Layer(arr, k) == LET inLayer(a) == layerOrder(a.p.type) = k IN SelectSeq(arr, inLayer)

\* no sort: the list is painted in the order passed
SortByLayer_unsorted(arr) == arr

\* [...annotations].sort((a, b) => layerOrder(a) - layerOrder(b)): Array.prototype.sort
\* is stable, so each layer keeps the order of the list passed
SortByLayer(arr) ==
    Layer(arr, 0) \o Layer(arr, 1) \o Layer(arr, 2) \o Layer(arr, 3) \o Layer(arr, 4)
        \o Layer(arr, 5)

\* the index into pdfDoc.getPages() of the page of an annotation, or -1 when
\* getPageCtx returns null (pass 1) and the loop continues (pass 2)
NoPage == -1

\* the page lookup with no check of the index against pages.length
PageIndexOf_unchecked(pageId) == LET found == { i \in 1..Len(ePagesInfo) : ePagesInfo[i].id = pageId } IN IF found = {} THEN NoPage ELSE IF ePagesInfo[CHOOSE i \in found : \A j \in found : i <= j].type # "original" THEN NoPage ELSE ePagesInfo[CHOOSE i \in found : \A j \in found : i <= j].originalIndex - 1

\* pagesInfo.find(p => p.id === pageId), the checks of its type and of its
\* originalIndex against pages.length
PageIndexOf(pageId) ==
    LET found == { i \in 1..Len(ePagesInfo) : ePagesInfo[i].id = pageId }
    IN  IF found = {} THEN NoPage
        ELSE LET pageInfo == ePagesInfo[CHOOSE i \in found : \A j \in found : i <= j]
                 pageIndex == pageInfo.originalIndex - 1
             IN  IF pageInfo.type # "original" THEN NoPage
                 ELSE IF pageIndex < 0 \/ pageIndex >= eDocPages THEN NoPage
                 ELSE pageIndex

PaintOp(op, a, pageIndex) == [op |-> op, ann |-> a.id, type |-> a.p.type, page |-> pageIndex]
Repeat(n, x) == [i \in 1..n |-> x]

\* the calls of one iteration of pass 1
Pass1Ops(a) ==
    IF a.p.type # "text" \/ a.p.lines = 0 THEN <<>>
    ELSE IF PageIndexOf(a.p.pageId) = NoPage THEN <<>>
    ELSE LET white == PaintOp("drawRectangle", a, PageIndexOf(a.p.pageId))
         IN  (IF a.p.native THEN <<white>> ELSE <<>>) \o <<white>>

\* the image branch of pass 2 with no try/catch around it
ImageResult_uncaught(image) == IF image = "png" THEN "drawn" ELSE IF image = "bad" THEN "thrown" ELSE "skipped"

\* the image branch of pass 2: the image is embedded and drawn; embedPng or embedJpg
\* throws and the catch logs it; or the data is neither PNG nor JPEG and image
\* stays undefined
ImageResult(image) == IF image = "png" THEN "drawn" ELSE IF image = "bad" THEN "skipped" ELSE "skipped"

\* the iteration of pass 2 ends with an exception leaving applyAnnotations
Pass2Throws(a) == PageIndexOf(a.p.pageId) # NoPage /\ a.p.type = "image" /\ a.p.image # "none" /\ ImageResult(a.p.image) = "thrown"

\* the calls of one iteration of pass 2
Pass2Paint(a, pageIndex) ==
    IF a.p.type = "text" /\ a.p.lines > 0
    THEN Repeat(a.p.lines, PaintOp("drawText", a, pageIndex))
    ELSE IF a.p.type \in {"draw", "highlight", "eraser"}
    THEN IF a.p.points > 1
         THEN Repeat(a.p.points - 1, PaintOp("drawLine", a, pageIndex))
              \o (IF a.p.type = "eraser"
                  THEN Repeat(a.p.points, PaintOp("drawCircle", a, pageIndex))
                  ELSE <<>>)
         ELSE <<>>
    ELSE IF a.p.type = "shape"
    THEN IF a.p.shapeType = "rectangle" THEN <<PaintOp("drawRectangle", a, pageIndex)>>
         ELSE IF a.p.shapeType = "circle" THEN <<PaintOp("drawEllipse", a, pageIndex)>>
         ELSE <<>>
    ELSE IF a.p.type = "image" /\ a.p.image # "none"
    THEN IF ImageResult(a.p.image) = "drawn" THEN <<PaintOp("drawImage", a, pageIndex)>> ELSE <<>>
    ELSE <<>>

\* pass 2 painting the white rectangles of a text annotation right before its text
Pass2Ops_interleaved(a) ==
    IF PageIndexOf(a.p.pageId) = NoPage THEN <<>>
    ELSE Pass1Ops(a) \o Pass2Paint(a, PageIndexOf(a.p.pageId))

Pass2Ops(a) ==
    IF PageIndexOf(a.p.pageId) = NoPage THEN <<>>
    ELSE Pass2Paint(a, PageIndexOf(a.p.pageId))

\* the rotation loop setting every page upright
RotationOps_unrotated(info) == IF info.type = "original" /\ info.originalIndex - 1 >= 0 /\ info.originalIndex - 1 < eDocPages THEN <<[op |-> "setRotation", ann |-> 0, type |-> "page", page |-> info.originalIndex - 1, rotation |-> 0]>> ELSE <<>>

\* the call of one iteration of the loop that applies the page rotations
RotationOps(info) ==
    IF info.type = "original" /\ info.originalIndex - 1 >= 0
                              /\ info.originalIndex - 1 < eDocPages
    THEN <<[op |-> "setRotation", ann |-> 0, type |-> "page", page |-> info.originalIndex - 1, rotation |-> info.rotation]>>
    ELSE <<>>

\* the calls of pass 1, of pass 2 and of the rotation loop over a whole list
Pass1All(arr) ==
    LET f[i \in 0..Len(arr)] == IF i = 0 THEN <<>> ELSE f[i - 1] \o Pass1Ops(arr[i])
    IN  f[Len(arr)]
Pass2All(arr) ==
    LET f[i \in 0..Len(arr)] == IF i = 0 THEN <<>> ELSE f[i - 1] \o Pass2Ops(arr[i])
    IN  f[Len(arr)]
RotationAll(infos) ==
    LET f[i \in 0..Len(infos)] == IF i = 0 THEN <<>> ELSE f[i - 1] \o RotationOps(infos[i])
    IN  f[Len(infos)]

\* every call one run of applyAnnotations makes when it is passed the list arr
applyAnnotationsOps(arr) ==
    IF eDocPages = 0 THEN <<>>
    ELSE LET sorted == SortByLayer(arr)
         IN  Pass1All(sorted) \o Pass2All(sorted) \o RotationAll(ePagesInfo)

applyAnnotationsStart ==
    /\ ePc = "idle"
    /\ IF eDocPages = 0
       THEN ePc' = "done" /\ UNCHANGED eSorted
       ELSE ePc' = "pass1" /\ eSorted' = SortByLayer(eAnnotations)
    /\ eI' = 1
    /\ UNCHANGED <<eAnnotations, ePagesInfo, eDocPages, eOps>>
    /\ UNCHANGED notExport

pass1Step ==
    /\ ePc = "pass1"
    /\ eI <= Len(eSorted)
    /\ eOps' = eOps \o Pass1Ops(eSorted[eI])
    /\ eI' = eI + 1
    /\ UNCHANGED <<eAnnotations, ePagesInfo, eDocPages, ePc, eSorted>>
    /\ UNCHANGED notExport

pass1End ==
    /\ ePc = "pass1"
    /\ eI > Len(eSorted)
    /\ ePc' = "pass2"
    /\ eI' = 1
    /\ UNCHANGED <<eAnnotations, ePagesInfo, eDocPages, eSorted, eOps>>
    /\ UNCHANGED notExport

pass2Step ==
    /\ ePc = "pass2"
    /\ eI <= Len(eSorted)
    /\ eOps' = eOps \o Pass2Ops(eSorted[eI])
    /\ eI' = eI + 1
    /\ ePc' = IF Pass2Throws(eSorted[eI]) THEN "thrown" ELSE ePc
    /\ UNCHANGED <<eAnnotations, ePagesInfo, eDocPages, eSorted>>
    /\ UNCHANGED notExport

pass2End ==
    /\ ePc = "pass2"
    /\ eI > Len(eSorted)
    /\ ePc' = "rotate"
    /\ eI' = 1
    /\ UNCHANGED <<eAnnotations, ePagesInfo, eDocPages, eSorted, eOps>>
    /\ UNCHANGED notExport

rotateStep ==
    /\ ePc = "rotate"
    /\ eI <= Len(ePagesInfo)
    /\ eOps' = eOps \o RotationOps(ePagesInfo[eI])
    /\ eI' = eI + 1
    /\ UNCHANGED <<eAnnotations, ePagesInfo, eDocPages, ePc, eSorted>>
    /\ UNCHANGED notExport

applyAnnotationsReturn ==
    /\ ePc = "rotate"
    /\ eI > Len(ePagesInfo)
    /\ ePc' = "done"
    /\ UNCHANGED <<eAnnotations, ePagesInfo, eDocPages, eSorted, eI, eOps>>
    /\ UNCHANGED notExport

ExportNext ==
    \/ applyAnnotationsStart
    \/ pass1Step
    \/ pass1End
    \/ pass2Step
    \/ pass2End
    \/ rotateStep
    \/ applyAnnotationsReturn

(***************************************************************************)
(* A native text edit: the click on a text group of the page               *)
(* (handleNativeTextClick), the edit of the text (TextEditor), the drag of *)
(* the box (useSelectTool), and the white rectangles pass 1 of             *)
(* applyAnnotations paints for the annotation.  Lengths are in hundredths  *)
(* of a point, so that the factors 0.5, 0.88 and 0.65 of the source stay   *)
(* integers; a text is its number of characters, its number of non-empty   *)
(* lines and the width Helvetica gives it at 12 pt.                        *)
(***************************************************************************)
PAD == 400
MAX_WHITE_W == 32000
MAX_WHITE_H == 10000
\* data.fontSize || 12
DefaultFontSize == 12

Text(chars, lines, measured) == [chars |-> chars, lines |-> lines, measured |-> measured]
\* "Hello", "Hello, World" and "Hi" at 12 pt
TextHello == Text(5, 1, 2734)
TextHelloWorld == Text(12, 1, 6534)
TextHi == Text(2, 1, 1133)
Texts == {TextHello, TextHelloWorld, TextHi}

\* the text groups of the page: "Hello" at 12 pt, at two places of a 612 x 792 page
NativeItems ==
    { [text |-> TextHello, x |-> 7200, yTop |-> 10000, width |-> 2734,
       height |-> 1200, fontSize |-> 12],
      [text |-> TextHello, x |-> 30000, yTop |-> 40000, width |-> 2734,
       height |-> 1400, fontSize |-> 12] }
NativePage == <<61200, 79200>>
\* the distances a drag moves the box, in x and in y
DragSteps == {<<0, 2000>>, <<5000, 0>>}

NoAnn == [isNativeEdit |-> FALSE]
NoOrigin == [width |-> -1]

\* the data of the annotation handleNativeTextClick adds for the item
NativeEditData(item) ==
    [text |-> item.text, x |-> item.x, y |-> item.yTop,
     width |-> item.width, height |-> item.height, fontSize |-> item.fontSize,
     isNativeEdit |-> TRUE, nativeEditOrigin |-> NoOrigin]

\* the same annotation carrying the rectangle of the original text
WithOrigin(item) ==
    [NativeEditData(item) EXCEPT
        !.nativeEditOrigin = Rect(item.x, item.yTop, item.width, item.height)]

\* drawWhite(x, y, w, h) of pass 1: the rectangle it passes to page.drawRectangle
drawWhite(x, y, w, h, rotation) ==
    LET wCap == Min(w, MAX_WHITE_W)
        hCap == Min(h, MAX_WHITE_H)
        pos == mapToExportCoords(x, y, wCap, hCap, NativePage[1], NativePage[2], rotation)
    IN  Rect(pos.x - PAD, pos.y - PAD, pos.width + PAD * 2, pos.height + PAD * 2)

\* the white rectangles one iteration of pass 1 paints for a text annotation
Pass1Whites(data, rotation) ==
    IF data.text.chars = 0 THEN <<>>
    ELSE
    LET fontSize == IF data.fontSize # 0 THEN data.fontSize ELSE DefaultFontSize
        lineCount == Max(1, data.text.lines)
        formulaW == fontSize * data.text.chars * 50
        formulaH == lineCount * fontSize * 88
        formulaH_Tight == lineCount * fontSize * 65
        textW == Min(MAX_WHITE_W, IF data.width > 0 THEN Min(data.width, formulaW) ELSE formulaW)
        textH == Min(MAX_WHITE_H, IF data.height > 0 THEN Min(data.height, formulaH) ELSE formulaH)
        o == data.nativeEditOrigin
        ow == Min(MAX_WHITE_W, IF o.width > 0 THEN o.width ELSE formulaW)
        oh == Min(MAX_WHITE_H, IF o.height > 0 THEN Min(o.height, formulaH_Tight) ELSE formulaH_Tight)
        oBottom == o.y + o.height
        rectY == oBottom - oh
    IN  (IF data.isNativeEdit /\ o # NoOrigin
         THEN <<drawWhite(o.x, rectY, ow, oh, rotation)>>
         ELSE <<>>)
        \o <<drawWhite(data.x, data.y, textW, textH, rotation)>>

NativeIdle ==
    /\ nItem = CHOOSE item \in NativeItems : item.x = 7200
    /\ nRotation = 0
    /\ nAnn = NoAnn
    /\ nPc = "idle"
    /\ nWhites = <<>>

\* the store holds no annotation for the group yet, or one that carries the
\* rectangle of the original text as nativeEditOrigin
NativeInit ==
    /\ nItem \in NativeItems
    /\ nRotation \in Rotations
    /\ \/ nAnn = NoAnn /\ nPc = "idle"
       \/ nAnn = WithOrigin(nItem) /\ nPc = "clicked"
    /\ nWhites = <<>>

handleNativeTextClick ==
    /\ nPc = "idle"
    /\ nAnn' = NativeEditData(nItem)
    /\ nPc' = "clicked"
    /\ UNCHANGED <<nItem, nRotation, nWhites>>
    /\ UNCHANGED notNative

\* TextEditor: handleSave passes text and fontSize (and the style) to updateAnnotation
TextEditorSave(text) ==
    /\ nPc = "clicked"
    /\ nAnn' = [nAnn EXCEPT !.text = text]
    /\ nPc' = "edited"
    /\ UNCHANGED <<nItem, nRotation, nWhites>>
    /\ UNCHANGED notNative

\* useSelectTool: the drag of a text box adds (dx, dy) to data.x and data.y
dragAnnotation(d) ==
    /\ nPc \in {"clicked", "edited"}
    /\ nAnn.x = nItem.x /\ nAnn.y = nItem.yTop
    /\ nAnn' = [nAnn EXCEPT !.x = @ + d[1], !.y = @ + d[2]]
    /\ UNCHANGED <<nItem, nRotation, nPc, nWhites>>
    /\ UNCHANGED notNative

exportPass1 ==
    /\ nPc \in {"clicked", "edited"}
    /\ nWhites' = Pass1Whites(nAnn, nRotation)
    /\ nPc' = "exported"
    /\ UNCHANGED <<nItem, nRotation, nAnn>>
    /\ UNCHANGED notNative

NativeNext ==
    \/ handleNativeTextClick
    \/ \E text \in Texts : TextEditorSave(text)
    \/ \E d \in DragSteps : dragAnnotation(d)
    \/ exportPass1

(***************************************************************************)
(* NativeTextLayer (NativeTextLayer.tsx): the clicks on the text groups of *)
(* the page shown, the in-place editor and its blur, tool switches and     *)
(* page changes.  A native edit annotation is the pair of its pageId and   *)
(* its originalTextId; the text groups of every page have the ids          *)
(* group-native-0, group-native-1, ... (pdf-renderer.ts numbers the items  *)
(* of each page from 0).                                                   *)
(***************************************************************************)
\* the most native edit annotations the model lets the layer add
MaxNative == 3

TextGroupIds == {1, 2}
ViewedPageIds == {1, 2}
Tools == {"select", "text", "draw"}

\* hasNativeEditAnnotation of the group: the lookup compares originalTextId only
hasNativeEditAnnotation(group) ==
    \E i \in 1..Len(tAnns) : tAnns[i][2] = group

\* onTextClick = handleNativeTextClick: addAnnotation of a new native edit
\* annotation with pageId = currentPageInfo.id and originalTextId = item.id
onTextClick(group) == Append(tAnns, <<tPageId, group>>)

TextLayerIdle ==
    /\ tAnns = <<>>
    /\ tTool = "select"
    /\ tEditingId = NULL
    /\ tPageId = 1

\* the onClick of a group that is not being edited; the group takes pointer
\* events with the text tool, and with the select tool while it has no annotation
groupClick(group) ==
    /\ group # tEditingId
    /\ \/ /\ tTool = "text"
          /\ tEditingId' = group
          /\ UNCHANGED tAnns
       \/ /\ tTool = "select"
          /\ ~hasNativeEditAnnotation(group)
          /\ Len(tAnns) < MaxNative
          /\ tAnns' = onTextClick(group)
          /\ UNCHANGED tEditingId
    /\ UNCHANGED <<tTool, tPageId>>
    /\ UNCHANGED notTextLayer

\* handleBlur of the in-place editor; changed: newText !== group.text
handleBlur(changed) ==
    /\ tEditingId # NULL
    /\ IF changed
       THEN Len(tAnns) < MaxNative /\ tAnns' = onTextClick(tEditingId)
       ELSE UNCHANGED tAnns
    /\ tEditingId' = NULL
    /\ UNCHANGED <<tTool, tPageId>>
    /\ UNCHANGED notTextLayer

\* setActiveTool (the click on the toolbar takes the focus: the editor has blurred)
switchTool(tool) ==
    /\ tEditingId = NULL
    /\ tool # tTool
    /\ tTool' = tool
    /\ UNCHANGED <<tAnns, tEditingId, tPageId>>
    /\ UNCHANGED notTextLayer

\* setCurrentPage to another page (the click on the sidebar: the editor has blurred)
changePage(pageId) ==
    /\ tEditingId = NULL
    /\ pageId # tPageId
    /\ tPageId' = pageId
    /\ UNCHANGED <<tAnns, tTool, tEditingId>>
    /\ UNCHANGED notTextLayer

TextLayerNext ==
    \/ \E group \in TextGroupIds : groupClick(group)
    \/ \E changed \in BOOLEAN : handleBlur(changed)
    \/ \E tool \in Tools : switchTool(tool)
    \/ \E pageId \in ViewedPageIds : changePage(pageId)

(***************************************************************************)
(* Pointer input (useEditorTools.ts, convertMouseToPdfCoords): a shape is  *)
(* drawn on the page as shown, the page is rotated, and applyAnnotations   *)
(* maps the stored rectangle with the rotation the page has at the export. *)
(***************************************************************************)
\* layer.getBoundingClientRect(): left and top
LayerLeft == 10
LayerTop == 20
PointerScales == {1, 2}
\* pointer positions and drags, multiples of every scale
PointerDowns == {<<14, 24>>, <<18, 32>>}
PointerDrags == {<<4, 8>>, <<8, 4>>, <<4, 4>>}
PointerPage == <<612, 792>>
RotationDeltas == {90, -90}

\* scale and the parameter _rotation are as in the source: the rotation is not used
convertMouseToPdfCoords(clientX, clientY, left, top, scale, rotation) ==
    LET offsetX == clientX - left
        offsetY == clientY - top
    IN  [x |-> offsetX \div scale, y |-> offsetY \div scale]

getCanvasCoordinates(client) ==
    convertMouseToPdfCoords(client[1], client[2], LayerLeft, LayerTop, pScale, pRotation)

PointerIdle ==
    /\ pScale = 1
    /\ pDown = <<14, 24>>
    /\ pUp = <<18, 32>>
    /\ pRotation = 0
    /\ pDrawnAt = 0
    /\ pStored = ZeroRect
    /\ pPc = "idle"
    /\ pOut = ZeroRect

PointerInit ==
    /\ pScale \in PointerScales
    /\ pDown \in PointerDowns
    /\ pUp \in { <<pDown[1] + d[1], pDown[2] + d[2]>> : d \in PointerDrags }
    /\ pRotation \in Rotations
    /\ pDrawnAt = 0
    /\ pStored = ZeroRect
    /\ pPc = "idle"
    /\ pOut = ZeroRect

\* pointer down sets startPos, pointer move sets width and height, pointer up
\* adds the annotation
drawShape ==
    /\ pPc = "idle"
    /\ LET start == getCanvasCoordinates(pDown)
           end == getCanvasCoordinates(pUp)
       IN  pStored' = Rect(start.x, start.y, end.x - start.x, end.y - start.y)
    /\ pDrawnAt' = pRotation
    /\ pPc' = "drawn"
    /\ UNCHANGED <<pScale, pDown, pUp, pRotation, pOut>>
    /\ UNCHANGED notPointer

\* rotateCurrentPage: the annotations are left as they are
rotateCurrentPage(delta) ==
    /\ pPc = "drawn"
    /\ pRotation' = JsRem(pRotation + delta + 360, 360)
    /\ UNCHANGED <<pScale, pDown, pUp, pDrawnAt, pStored, pPc, pOut>>
    /\ UNCHANGED notPointer

\* applyAnnotations, the shape branch of pass 2: toPDF(data.x, data.y, data.width, data.height)
exportShape ==
    /\ pPc = "drawn"
    /\ pOut' = mapToExportCoords(pStored.x, pStored.y, pStored.width, pStored.height,
                                 PointerPage[1], PointerPage[2], pRotation)
    /\ pPc' = "exported"
    /\ UNCHANGED <<pScale, pDown, pUp, pRotation, pDrawnAt, pStored>>
    /\ UNCHANGED notPointer

PointerNext ==
    \/ drawShape
    \/ \E delta \in RotationDeltas : rotateCurrentPage(delta)
    \/ exportShape

(***************************************************************************)
(* PDFViewer.renderPage and PDFRenderer.renderPage (pdf-renderer.ts): the  *)
(* requests to render a page on the canvas of the viewer.  Each action is  *)
(* the code of one request between two awaits.                             *)
(***************************************************************************)
\* the most render requests the model lets the viewer make
MaxRequests == 3

Requests == 1..MaxRequests
NoRequest == 0

\* existingTask.cancel(): isCancelled = true, and pdfRenderTask.cancel() if the
\* page is being rendered
CancelledBy(existing) == [vCancelled EXCEPT ![existing] = TRUE]
TaskCancelledBy(existing) ==
    [vTask EXCEPT ![existing] = IF @ = "running" THEN "cancelled" ELSE @]

RenderIdle ==
    /\ vCount = 0
    /\ vPc = [r \in Requests |-> "new"]
    /\ vCancelled = [r \in Requests |-> FALSE]
    /\ vTask = [r \in Requests |-> "none"]
    /\ vWaitFor = [r \in Requests |-> NoRequest]
    /\ vActive = NoRequest
    /\ vItems = NoRequest

\* a new request: PDFViewer.renderPage calls pdfRenderer.renderPage, which cancels
\* the registered task and awaits its promise, or (none registered) starts its
\* render flow up to the await of getPage and registers it
renderPage ==
    /\ vCount < MaxRequests
    /\ LET r == vCount + 1
       IN  /\ vCount' = r
           /\ IF vActive # NoRequest
              THEN /\ vCancelled' = CancelledBy(vActive)
                   /\ vTask' = TaskCancelledBy(vActive)
                   /\ vWaitFor' = [vWaitFor EXCEPT ![r] = vActive]
                   /\ vPc' = [vPc EXCEPT ![r] = "waitExisting"]
                   /\ UNCHANGED vActive
              ELSE /\ vActive' = r
                   /\ vPc' = [vPc EXCEPT ![r] = "getPage"]
                   /\ UNCHANGED <<vCancelled, vTask, vWaitFor>>
    /\ UNCHANGED vItems
    /\ UNCHANGED notRender

\* the requests that await the promise of a request (await existingTask.promise)
Waiters(r) == { w \in Requests : vPc[w] = "waitExisting" /\ vWaitFor[w] = r }

\* the last request of a set, in the order the requests were made
LastOf(S) == CHOOSE w \in S : \A o \in S : o <= w

\* the finally block of the render flow: the registration is deleted if it is
\* still the one of this request
FinallyActive(r) == IF vActive = r THEN NoRequest ELSE vActive

\* the promise of a request settles.  Its finally block runs, renderPage returns
\* to PDFViewer.renderPage, and every request awaiting the promise resumes, in
\* the order the requests were made: each starts its render flow up to the await
\* of getPage and registers it with set(canvas, ...), so the last one stays
SettledActive(r) == IF Waiters(r) = {} THEN FinallyActive(r) ELSE LastOf(Waiters(r))
SettledPc(r) == [w \in Requests |-> IF w = r THEN "fetchText" ELSE IF w \in Waiters(r) THEN "getPage" ELSE vPc[w]]

\* getPage has returned: a cancelled flow returns, any other starts page.render
getPageReturned(r) ==
    /\ vPc[r] = "getPage"
    /\ IF vCancelled[r]
       THEN /\ vActive' = SettledActive(r)
            /\ vPc' = SettledPc(r)
            /\ UNCHANGED vTask
       ELSE /\ vTask' = [vTask EXCEPT ![r] = "running"]
            /\ vPc' = [vPc EXCEPT ![r] = "rendering"]
            /\ UNCHANGED vActive
    /\ UNCHANGED <<vCount, vCancelled, vWaitFor, vItems>>
    /\ UNCHANGED notRender

\* pdfRenderTask.promise has settled: fulfilled, or rejected with
\* RenderingCancelledException after a cancel; both ways the flow ends
renderSettled(r) ==
    /\ vPc[r] = "rendering"
    /\ vActive' = SettledActive(r)
    /\ vPc' = SettledPc(r)
    /\ UNCHANGED <<vCount, vCancelled, vTask, vWaitFor, vItems>>
    /\ UNCHANGED notRender

\* PDFViewer.renderPage: getPageTextContent has returned, setNativeTextItems
textContentReturned(r) ==
    /\ vPc[r] = "fetchText"
    /\ vItems' = r
    /\ vPc' = [vPc EXCEPT ![r] = "done"]
    /\ UNCHANGED <<vCount, vCancelled, vTask, vWaitFor, vActive>>
    /\ UNCHANGED notRender

RenderNext ==
    \/ renderPage
    \/ \E r \in Requests : getPageReturned(r)
    \/ \E r \in Requests : renderSettled(r)
    \/ \E r \in Requests : textContentReturned(r)

(***************************************************************************)
(* LRUImageCache (utils/image-cache.ts).                                   *)
(***************************************************************************)
\* the largest maxSize the model constructs a cache with
MaxCapacity == 2

\* keys are strings; the empty string is one of them
Keys == {"", "a", "b"}
Images == {1, 2}

\* accessOrder.indexOf(key), 0 for -1
IndexOf(order, key) == IF \E i \in 1..Len(order) : order[i] = key THEN CHOOSE i \in 1..Len(order) : order[i] = key /\ \A j \in 1..(i - 1) : order[j] # key ELSE 0

\* index = accessOrder.indexOf(key); if (index > -1) accessOrder.splice(index, 1)
RemoveKey(order, key) == IF IndexOf(order, key) = 0 THEN order ELSE SubSeq(order, 1, IndexOf(order, key) - 1) \o SubSeq(order, IndexOf(order, key) + 1, Len(order))

\* ... and accessOrder.push(key)
Touch(order, key) == Append(RemoveKey(order, key), key)

\* cache.set(key, value) and cache.delete(key) of the Map
MapSet(cache, key, value) == [k \in (DOMAIN cache) \cup {key} |-> IF k = key THEN value ELSE cache[k]]
MapDelete(cache, key) == [k \in (DOMAIN cache) \ {key} |-> cache[k]]
EmptyMap == [k \in {} |-> 0]

\* if (oldestKey): undefined and the empty string are falsy
Truthy(key) == key # ""

\* the cache of a set call with a key that is not cached
SetNewCache(key, value) ==
    IF Cardinality(DOMAIN iCache) >= iMaxSize /\ Len(iOrder) > 0 /\ Truthy(Head(iOrder))
    THEN MapSet(MapDelete(iCache, Head(iOrder)), key, value)
    ELSE MapSet(iCache, key, value)
SetNewOrder(key) ==
    IF Cardinality(DOMAIN iCache) >= iMaxSize /\ Len(iOrder) > 0
    THEN Append(Tail(iOrder), key)
    ELSE Append(iOrder, key)

\* the reference LRU map: present keys, the most recently used last
RefTouch(ref, key) == Append(SelectSeq(ref, LAMBDA k : k # key), key)
RefSet(ref, key) ==
    IF \E i \in 1..Len(ref) : ref[i] = key
    THEN RefTouch(ref, key)
    ELSE IF Len(ref) >= iMaxSize THEN Append(Tail(ref), key) ELSE Append(ref, key)
RefGet(ref, key) == IF \E i \in 1..Len(ref) : ref[i] = key THEN RefTouch(ref, key) ELSE ref
RefKeep(ref, keep) == SelectSeq(ref, LAMBDA k : k \in keep)

\* no clearByPage call to remember
NoClear == [op |-> "other", keep |-> {}, cache |-> EmptyMap, order |-> <<>>]

CacheIdle ==
    /\ iMaxSize = 1
    /\ iCache = EmptyMap
    /\ iOrder = <<>>
    /\ iRef = <<>>
    /\ iLast = NoClear

\* new LRUImageCache(maxSize)
CacheInit ==
    /\ iMaxSize \in 1..MaxCapacity
    /\ iCache = EmptyMap
    /\ iOrder = <<>>
    /\ iRef = <<>>
    /\ iLast = NoClear

get(key) ==
    /\ IF key \in DOMAIN iCache
       THEN iOrder' = Touch(iOrder, key)
       ELSE UNCHANGED iOrder
    /\ iRef' = RefGet(iRef, key)
    /\ iLast' = NoClear
    /\ UNCHANGED <<iMaxSize, iCache>>
    /\ UNCHANGED notCache

set(key, value) ==
    /\ IF key \in DOMAIN iCache
       THEN /\ iOrder' = Touch(iOrder, key)
            /\ iCache' = MapSet(iCache, key, value)
       ELSE /\ iCache' = SetNewCache(key, value)
            /\ iOrder' = SetNewOrder(key)
    /\ iRef' = RefSet(iRef, key)
    /\ iLast' = NoClear
    /\ UNCHANGED iMaxSize
    /\ UNCHANGED notCache

delete(key) ==
    /\ iOrder' = RemoveKey(iOrder, key)
    /\ iCache' = MapDelete(iCache, key)
    /\ iRef' = RefKeep(iRef, Keys \ {key})
    /\ iLast' = NoClear
    /\ UNCHANGED iMaxSize
    /\ UNCHANGED notCache

clear ==
    /\ iCache' = EmptyMap
    /\ iOrder' = <<>>
    /\ iRef' = <<>>
    /\ iLast' = NoClear
    /\ UNCHANGED iMaxSize
    /\ UNCHANGED notCache

\* keysToDelete: the cached keys that are not ids of annotations of the page
KeysToDelete(keep) == (DOMAIN iCache) \ keep

\* keysToDelete.forEach(key => this.delete(key)) without the splice of accessOrder
RemoveKeys_mapOnly(order, keys) == order

\* keysToDelete.forEach(key => this.delete(key)): accessOrder, and the Map
RemoveKeys(order, keys) == LET f[S \in SUBSET keys] == IF S = {} THEN order ELSE RemoveKey(f[S \ {CHOOSE k \in S : TRUE}], CHOOSE k \in S : TRUE) IN f[keys]
DeleteKeys(cache, keys) == [k \in (DOMAIN cache) \ keys |-> cache[k]]

\* keep: the ids of the annotations of the page; every other cached key is deleted
clearByPage(keep) ==
    /\ iCache' = DeleteKeys(iCache, KeysToDelete(keep))
    /\ iOrder' = RemoveKeys(iOrder, KeysToDelete(keep))
    /\ iRef' = RefKeep(iRef, keep)
    /\ iLast' = [op |-> "clearByPage", keep |-> keep, cache |-> iCache, order |-> iOrder]
    /\ UNCHANGED iMaxSize
    /\ UNCHANGED notCache

\* size()
size == Cardinality(DOMAIN iCache)

CacheNext ==
    \/ \E key \in Keys : get(key)
    \/ \E key \in Keys, value \in Images : set(key, value)
    \/ \E key \in Keys : delete(key)
    \/ clear
    \/ \E keep \in SUBSET Keys : clearByPage(keep)

(***************************************************************************)
(* The fonts of applyAnnotations (pdf-export): needsUnicodeFont,           *)
(* toWinAnsiSafe, getCjkFontBytes and the drawing of the text annotations. *)
(***************************************************************************)
\* the longest text of an annotation, in characters
MaxTextLen == 2

\* line feed, 'A', e acute, a CJK ideograph; '?' is what toWinAnsiSafe writes
CodePoints == {10, 65, 233, 20013}
QuestionMark == 63
FontTexts == UNION { [1..n -> CodePoints] : n \in 0..MaxTextLen }
FontAnnIds == {1, 2}

\* getCjkFontBytes returns bytes that embed; returns null (response not ok; not
\* a TTF/OTF; fetch throws); or returns bytes whose embedFont throws
FontOutcomes == {"embedded", "notFetched", "badFormat", "fetchThrows", "embedThrows"}

needsUnicodeFont(text) == \E i \in 1..Len(text) : text[i] <= 31 \/ text[i] = 127 \/ (text[i] >= 128 /\ text[i] <= 159) \/ text[i] > 255

toWinAnsiSafe_identity(text) == text
toWinAnsiSafe(text) == [i \in 1..Len(text) |-> IF (text[i] >= 32 /\ text[i] <= 126) \/ (text[i] >= 160 /\ text[i] <= 255) THEN text[i] ELSE QuestionMark]

\* the standard font encodes WinAnsi only; drawText throws on any other character
WinAnsiEncodable(code) == (code >= 32 /\ code <= 126) \/ (code >= 160 /\ code <= 255)
BaseFontThrows(line) == \E i \in 1..Len(line) : ~WinAnsiEncodable(line[i])

\* safeText.split(/\r?\n/)
SplitLines(s) == LET f[i \in 0..Len(s)] == IF i = 0 THEN << <<>> >> ELSE IF s[i] = 10 THEN Append(f[i - 1], <<>>) ELSE [f[i - 1] EXCEPT ![Len(f[i - 1])] = Append(@, s[i])] IN f[Len(s)]

\* needsCjk: some text annotation has a text that needs the Unicode font
needsCjk == \E a \in FontAnnIds : fTexts[a] # <<>> /\ needsUnicodeFont(fTexts[a])

\* the drawText calls of pass 2 for one text annotation: one for each line
\* that is not empty, with the font and the text chosen for the annotation;
\* line i is drawn at data.y + i * lineHeight
useCjk(text) == fCjkFont /\ needsUnicodeFont(text)
safeText(text) == IF useCjk(text) THEN text ELSE toWinAnsiSafe(text)
LinesDrawn(text) == [i \in 1..Len(SplitLines(safeText(text))) |-> [font |-> IF useCjk(text) THEN "cjk" ELSE "base", text |-> SplitLines(safeText(text))[i], line |-> i - 1]]
DrawTextCalls(text) == IF text = <<>> THEN <<>> ELSE SelectSeq(LinesDrawn(text), LAMBDA call : call.text # <<>>)
Pass2TextCalls == DrawTextCalls(fTexts[1]) \o DrawTextCalls(fTexts[2])

\* the calls before the first one that throws
Throwing(call) == call.font = "base" /\ BaseFontThrows(call.text)
CallsMade(calls) == IF \E i \in 1..Len(calls) : Throwing(calls[i]) THEN SubSeq(calls, 1, (CHOOSE i \in 1..Len(calls) : Throwing(calls[i]) /\ \A j \in 1..(i - 1) : ~Throwing(calls[j])) - 1) ELSE calls

FontIdle ==
    /\ fTexts = [a \in FontAnnIds |-> <<>>]
    /\ fOutcome = "embedded"
    /\ fCjkFont = FALSE
    /\ fPc = "idle"
    /\ fDrawn = <<>>

FontInit ==
    /\ fTexts \in [FontAnnIds -> FontTexts]
    /\ fOutcome \in FontOutcomes
    /\ fCjkFont = FALSE
    /\ fPc = "start"
    /\ fDrawn = <<>>

\* embedFont(Helvetica); if needsCjk, getCjkFontBytes and embedFont(bytes),
\* every failure of which leaves cjkFont null
embedFonts ==
    /\ fPc = "start"
    /\ fCjkFont' = (needsCjk /\ fOutcome = "embedded")
    /\ fPc' = "fonts"
    /\ UNCHANGED <<fTexts, fOutcome, fDrawn>>
    /\ UNCHANGED notFont

\* pass 2 over the text annotations
drawTexts ==
    /\ fPc = "fonts"
    /\ fDrawn' = CallsMade(Pass2TextCalls)
    /\ fPc' = IF CallsMade(Pass2TextCalls) = Pass2TextCalls THEN "drawn" ELSE "thrown"
    /\ UNCHANGED <<fTexts, fOutcome, fCjkFont>>
    /\ UNCHANGED notFont

\* return pdfDoc
returnDoc ==
    /\ fPc = "drawn"
    /\ fPc' = "returned"
    /\ UNCHANGED <<fTexts, fOutcome, fCjkFont, fDrawn>>
    /\ UNCHANGED notFont

FontNext ==
    \/ embedFonts
    \/ drawTexts
    \/ returnDoc

(***************************************************************************)
(* The ids of the annotations: the tools build them from a prefix and      *)
(* Date.now() (useEditorTools, PDFViewer.handleNativeTextClick), and the   *)
(* store keeps what it is given.                                           *)
(***************************************************************************)
\* the last millisecond of the clock of the model, and the most annotations it stores
MaxClock == 2
MaxStored == 3

\* `${prefix}-${Date.now()}`
AnnotationId(prefix, now) == [prefix |-> prefix, at |-> now]
StoredIds == { AnnotationId(prefix, now) : prefix \in {"temp", "image", "text-edit"}, now \in 0..MaxClock }

\* tempAnnotation.current = null
NoTemp == [prefix |-> "none", at |-> 0]

IdsIdle ==
    /\ kNow = 0
    /\ kTemp = NoTemp
    /\ kAnnotations = <<>>

\* the clock reaches the next millisecond between two events
clockTick ==
    /\ kNow < MaxClock
    /\ kNow' = kNow + 1
    /\ UNCHANGED <<kTemp, kAnnotations>>
    /\ UNCHANGED notIds

\* pointer down with a drawing tool: tempAnnotation.current = { id: `temp-${Date.now()}`, ... }
handleMouseDown ==
    /\ kTemp' = AnnotationId("temp", kNow)
    /\ UNCHANGED <<kNow, kAnnotations>>
    /\ UNCHANGED notIds

\* pointer up: addAnnotation(tempAnnotation.current), unless the stroke or the
\* shape is too small; tempAnnotation.current = null
handleMouseUp(tooSmall) ==
    /\ kTemp # NoTemp
    /\ Len(kAnnotations) < MaxStored
    /\ kAnnotations' = IF tooSmall THEN kAnnotations ELSE Append(kAnnotations, [id |-> kTemp, data |-> 0])
    /\ kTemp' = NoTemp
    /\ UNCHANGED kNow
    /\ UNCHANGED notIds

\* img.onload of the image tool: addAnnotation({ id: `image-${Date.now()}`, ... })
imageLoaded ==
    /\ Len(kAnnotations) < MaxStored
    /\ kAnnotations' = Append(kAnnotations, [id |-> AnnotationId("image", kNow), data |-> 0])
    /\ UNCHANGED <<kNow, kTemp>>
    /\ UNCHANGED notIds

\* handleNativeTextClick: addAnnotation({ id: `text-edit-${Date.now()}`, ... })
nativeTextClick ==
    /\ Len(kAnnotations) < MaxStored
    /\ kAnnotations' = Append(kAnnotations, [id |-> AnnotationId("text-edit", kNow), data |-> 0])
    /\ UNCHANGED <<kNow, kTemp>>
    /\ UNCHANGED notIds

\* removeAnnotation(id): annotations.filter(a => a.id !== id)
removeStored(id) ==
    /\ kAnnotations' = SelectSeq(kAnnotations, LAMBDA a : a.id # id)
    /\ UNCHANGED <<kNow, kTemp>>
    /\ UNCHANGED notIds

\* updateAnnotation(id, data): every annotation of that id gets the data
updateStored(id) ==
    /\ kAnnotations' = [i \in 1..Len(kAnnotations) |-> IF kAnnotations[i].id = id THEN [kAnnotations[i] EXCEPT !.data = 1] ELSE kAnnotations[i]]
    /\ UNCHANGED <<kNow, kTemp>>
    /\ UNCHANGED notIds

IdsNext ==
    \/ clockTick
    \/ handleMouseDown
    \/ \E tooSmall \in BOOLEAN : handleMouseUp(tooSmall)
    \/ imageLoaded
    \/ nativeTextClick
    \/ \E id \in StoredIds : removeStored(id)
    \/ \E id \in StoredIds : updateStored(id)

(***************************************************************************)
(* The rotation of the pages: setPageRotation and rotateCurrentPage of the *)
(* store, on a document of three pages.                                    *)
(***************************************************************************)
\* setPageRotation is called with the multiples of 90 from -MaxTurns to MaxTurns quarter turns
MaxTurns == 5

RotatedPageIds == {1, 2, 3}
RotationInputs == { 90 * k : k \in (0 - MaxTurns)..MaxTurns }
QuarterTurns == {-90, 90}

\* setPdfDocument: every page starts with rotation 0, currentPage is 1
RotationIdle ==
    /\ gRotation = [p \in RotatedPageIds |-> 0]
    /\ gCurrentPage = 1

\* (rotation + 360) % 360
NormalizeRotation(rotation) == JsRem(rotation + 360, 360)

setPageRotation(pageId, rotation) ==
    /\ gRotation' = [p \in RotatedPageIds |-> IF p = pageId THEN NormalizeRotation(rotation) ELSE gRotation[p]]
    /\ UNCHANGED gCurrentPage
    /\ UNCHANGED notRotation

\* rotateCurrentPage(delta): (page.rotation + delta + 360) % 360
rotateCurrentPageBy(delta) ==
    /\ gRotation' = [p \in RotatedPageIds |-> IF p = gCurrentPage THEN JsRem(gRotation[p] + delta + 360, 360) ELSE gRotation[p]]
    /\ UNCHANGED gCurrentPage
    /\ UNCHANGED notRotation

\* setCurrentPage(page), for a page of the document
goToPage(page) ==
    /\ gCurrentPage' = page
    /\ UNCHANGED gRotation
    /\ UNCHANGED notRotation

RotationNext ==
    \/ \E pageId \in RotatedPageIds, rotation \in RotationInputs : setPageRotation(pageId, rotation)
    \/ \E delta \in QuarterTurns : rotateCurrentPageBy(delta)
    \/ \E page \in RotatedPageIds : goToPage(page)

(***************************************************************************)
(* The specifications: the store, one call of mapToExportCoords after      *)
(* another, and one run of applyAnnotations.                               *)
(***************************************************************************)
vars == <<storeVars, ghostVars, coordVars, exportVars, nativeVars, textLayerVars, pointerVars, renderVars, cacheVars, fontVars, idsVars, rotationVars>>

Init == StoreInit /\ CoordIdle /\ ExportIdle /\ NativeIdle /\ TextLayerIdle /\ PointerIdle /\ RenderIdle /\ CacheIdle /\ FontIdle /\ IdsIdle /\ RotationIdle
Next == StoreNext
Spec == Init /\ [][Next]_vars

SpecLive == Init /\ [][LiveNext]_vars
SpecSelection == Init /\ [][SelectionNext]_vars

InitCoords == StoreInit /\ CoordInit /\ ExportIdle /\ NativeIdle /\ TextLayerIdle /\ PointerIdle /\ RenderIdle /\ CacheIdle /\ FontIdle /\ IdsIdle /\ RotationIdle
NextCoords == CoordNext
SpecCoords == InitCoords /\ [][NextCoords]_vars

InitExport == StoreInit /\ CoordIdle /\ ExportInit /\ NativeIdle /\ TextLayerIdle /\ PointerIdle /\ RenderIdle /\ CacheIdle /\ FontIdle /\ IdsIdle /\ RotationIdle
NextExport == ExportNext
SpecExport == InitExport /\ [][NextExport]_vars

InitNative == StoreInit /\ CoordIdle /\ ExportIdle /\ NativeInit /\ TextLayerIdle /\ PointerIdle /\ RenderIdle /\ CacheIdle /\ FontIdle /\ IdsIdle /\ RotationIdle
NextNative == NativeNext
SpecNative == InitNative /\ [][NextNative]_vars

InitTextLayer == StoreInit /\ CoordIdle /\ ExportIdle /\ NativeIdle /\ TextLayerIdle /\ PointerIdle /\ RenderIdle /\ CacheIdle /\ FontIdle /\ IdsIdle /\ RotationIdle
NextTextLayer == TextLayerNext
SpecTextLayer == InitTextLayer /\ [][NextTextLayer]_vars

InitPointer == StoreInit /\ CoordIdle /\ ExportIdle /\ NativeIdle /\ TextLayerIdle /\ PointerInit /\ RenderIdle /\ CacheIdle /\ FontIdle /\ IdsIdle /\ RotationIdle
NextPointer == PointerNext
SpecPointer == InitPointer /\ [][NextPointer]_vars

InitRender == StoreInit /\ CoordIdle /\ ExportIdle /\ NativeIdle /\ TextLayerIdle /\ PointerIdle /\ RenderIdle /\ CacheIdle /\ FontIdle /\ IdsIdle /\ RotationIdle
NextRender == RenderNext
SpecRender == InitRender /\ [][NextRender]_vars

InitCache == StoreInit /\ CoordIdle /\ ExportIdle /\ NativeIdle /\ TextLayerIdle /\ PointerIdle /\ RenderIdle /\ CacheInit /\ FontIdle /\ IdsIdle /\ RotationIdle
NextCache == CacheNext
SpecCache == InitCache /\ [][NextCache]_vars

InitFont == StoreInit /\ CoordIdle /\ ExportIdle /\ NativeIdle /\ TextLayerIdle /\ PointerIdle /\ RenderIdle /\ CacheIdle /\ FontInit /\ IdsIdle /\ RotationIdle
NextFont == FontNext
SpecFont == InitFont /\ [][NextFont]_vars

InitIds == StoreInit /\ CoordIdle /\ ExportIdle /\ NativeIdle /\ TextLayerIdle /\ PointerIdle /\ RenderIdle /\ CacheIdle /\ FontIdle /\ IdsIdle /\ RotationIdle
NextIds == IdsNext
SpecIds == InitIds /\ [][NextIds]_vars

InitRotation == StoreInit /\ CoordIdle /\ ExportIdle /\ NativeIdle /\ TextLayerIdle /\ PointerIdle /\ RenderIdle /\ CacheIdle /\ FontIdle /\ IdsIdle /\ RotationIdle
NextRotation == RotationNext
SpecRotation == InitRotation /\ [][NextRotation]_vars

(***************************************************************************)
(* The annotation store: history.                                          *)
(***************************************************************************)
\* some snapshot of the history holds the annotation a
InSomeSnapshot(a) ==
    \E i \in 1..Len(history) : \E j \in 1..Len(history[i]) : history[i][j] = a

\* C1: each call of addAnnotation, removeAnnotation or updateAnnotation keeps
\* the snapshots up to historyIndex, discards every snapshot beyond it, appends
\* the new annotation array as the last snapshot and increases historyIndex by
\* exactly 1, so that right after the call historyIndex = history.length - 1.
C1_MutationPushesSnapshot ==
    last.op = "mutation" =>
        /\ historyIndex = last.historyIndex + 1
        /\ Len(history) = last.historyIndex + 2
        /\ SubSeq(history, 1, last.historyIndex + 1) = last.history
        /\ history[Len(history)] = annotations
        /\ historyIndex = Len(history) - 1

\* C1, the case: add(A), add(B), undo(), add(C) has been run; the last call found
\* a redo tail and left annotations = [A, C], historyIndex = 2, three snapshots,
\* none of them containing B.
C1_Witness ==
    /\ last.op = "mutation" /\ last.cut
    /\ annotations = <<AnnA, AnnC>>
    /\ historyIndex = 2
    /\ Len(history) = 3
    /\ ~InSomeSnapshot(AnnB)

\* C2: after n mutation calls on a freshly loaded store historyIndex = n (and
\* the history holds n + 1 snapshots); the undo calls that follow change the
\* store once for each of them, historyIndex = n - u after u changes, and an
\* undo call that changes nothing happens only after exactly n changes.
C2_HistoryCompleteness ==
    /\ run.kind = "mut" => historyIndex = run.n /\ Len(history) = run.n + 1
    /\ run.kind = "undo" =>
          /\ historyIndex = run.n - run.u
          /\ (last.op = "undo" /\ last.store = storeVars) => run.u = run.n

\* C2, the case: two mutation calls, one of them an updateAnnotation that changed
\* a payload, then two undo calls that changed the store and one that did not.
C2_Witness ==
    /\ run = [kind |-> "undo", n |-> 2, u |-> 2]
    /\ last.op = "undo" /\ last.store = storeVars
    /\ \E i \in 1..Len(history) : \E j \in 1..Len(history[i]) : history[i][j].data = 1

\* C3: history[historyIndex] is the live annotations array.
C3_SnapshotIsLive == At(history, historyIndex) = annotations

\* C4: 0 <= historyIndex < history.length.
C4_CursorInHistory == 0 <= historyIndex /\ historyIndex < Len(history)

\* C4, the case: undo was called at the bottom of a history that has a redo
\* tail, and the cursor stayed at 0.
C4_Witness ==
    /\ last.op = "undo" /\ last.historyIndex = 0
    /\ historyIndex = 0
    /\ Len(history) = 3

\* C5: undo() immediately followed by redo() leaves the live annotations array
\* as it was.  Stated for the states in which undo() is not a no-op
\* (historyIndex > 0), where the pair returns to the same cursor.
C5_UndoRedoRestores ==
    historyIndex > 0 =>
        LET u == UndoResult(history, historyIndex, annotations)
            r == RedoResult(history, u.historyIndex, u.annotations)
        IN  r.annotations = annotations

\* C6: undo() at historyIndex = 0 and redo() at historyIndex = history.length - 1
\* leave every field of the store unchanged; in every other state they move
\* historyIndex by exactly -1 / +1 and set annotations to the snapshot at the
\* new index.
C6_UndoRedoBounds ==
    /\ last.op = "undo" =>
          IF last.historyIndex = 0
          THEN storeVars = last.store
          ELSE /\ historyIndex = last.historyIndex - 1
               /\ annotations = At(history, historyIndex)
    /\ last.op = "redo" =>
          IF last.historyIndex = Len(last.history) - 1
          THEN storeVars = last.store
          ELSE /\ historyIndex = last.historyIndex + 1
               /\ annotations = At(history, historyIndex)

\* C6, the case: redo was called at the top of a history of three snapshots,
\* with an annotation selected.
C6_Witness ==
    /\ last.op = "redo" /\ last.historyIndex = Len(last.history) - 1
    /\ historyIndex = Len(history) - 1
    /\ historyIndex = 2
    /\ selectedAnnotation # NULL

(***************************************************************************)
(* mapToExportCoords.                                                      *)
(***************************************************************************)
\* the rectangle C7 gives for each rotation, for a W x H page
C7_Reference(rotation, W, H, r) ==
    CASE rotation = 0 -> Rect(r.x, H - r.y - r.height, r.width, r.height)
      [] rotation = 90 -> Rect(r.y, r.x, r.height, r.width)
      [] rotation = 180 -> Rect(W - r.x - r.width, r.y, r.width, r.height)
      [] rotation = 270 -> Rect(W - r.y - r.height, H - r.x - r.width, r.height, r.width)

\* C7: for every rotation in {0, 90, 180, 270}, every page size and every visual
\* rectangle, mapToExportCoords returns the rectangle of the reference
\* operation; a 612 x 792 page at rotation 90 maps (10, 10, 100, 50) to
\* (10, 10, 50, 100).
C7_ExportMatchesReference ==
    (cDone /\ cRotation \in Rotations) =>
        /\ cOut = C7_Reference(cRotation, cPage[1], cPage[2], cRect)
        /\ (cRotation = 90 /\ cPage = <<612, 792>> /\ cRect = ScenarioRect)
              => cOut = Rect(10, 10, 50, 100)

\* C7, the case: the scenario has been computed.
C7_Witness ==
    /\ cDone
    /\ cRotation = 90
    /\ cPage = <<612, 792>>
    /\ cRect = ScenarioRect
    /\ cOut = Rect(10, 10, 50, 100)

\* where the viewport of a W x H page shown at the given rotation (top-left
\* origin) shows the point (px, py) of the page (bottom-left origin)
C8_VisualPoint(px, py, W, H, rotation) ==
    CASE rotation = 0 -> <<px, H - py>>
      [] rotation = 90 -> <<py, px>>
      [] rotation = 180 -> <<W - px, py>>
      [] rotation = 270 -> <<H - py, W - px>>

\* the inverse mapping: the visual rectangle that shows the export rectangle r
C8_Inverse(r, W, H, rotation) ==
    LET p == C8_VisualPoint(r.x, r.y, W, H, rotation)
        q == C8_VisualPoint(r.x + r.width, r.y + r.height, W, H, rotation)
    IN  Rect(Min(p[1], q[1]), Min(p[2], q[2]),
             Max(p[1], q[1]) - Min(p[1], q[1]), Max(p[2], q[2]) - Min(p[2], q[2]))

\* the rectangle lies within the page as shown at the rotation
C8_InBounds(r, W, H, rotation) ==
    LET vw == IF rotation \in {90, 270} THEN H ELSE W
        vh == IF rotation \in {90, 270} THEN W ELSE H
    IN  r.x >= 0 /\ r.y >= 0 /\ r.x + r.width <= vw /\ r.y + r.height <= vh

\* C8: for every rotation in {0, 90, 180, 270} and every rectangle within the
\* visual page bounds, the inverse mapping applied to the result of
\* mapToExportCoords returns the rectangle, and no other rectangle within the
\* bounds has the same result.
C8_RoundTrip ==
    (cDone /\ cRotation \in Rotations /\ C8_InBounds(cRect, cPage[1], cPage[2], cRotation)) =>
        /\ C8_Inverse(cOut, cPage[1], cPage[2], cRotation) = cRect
        /\ \A r \in Rects :
              (/\ C8_InBounds(r, cPage[1], cPage[2], cRotation)
               /\ mapToExportCoords(r.x, r.y, r.width, r.height,
                                    cPage[1], cPage[2], cRotation) = cOut)
                  => r = cRect

\* C8, the case: a rectangle with different sides within a page with different
\* sides, shown at 270 degrees, has been mapped.
C8_Witness ==
    /\ cDone
    /\ cRotation = 270
    /\ cPage[1] < cPage[2]
    /\ cRect = Rect(1, 2, 2, 1)
    /\ C8_InBounds(cRect, cPage[1], cPage[2], cRotation)
    /\ cOut # cRect

(***************************************************************************)
(* applyAnnotations: the order of the paint operations.                    *)
(***************************************************************************)
\* a white redaction rectangle of a text annotation
IsWhiteOut(o) == o.op = "drawRectangle" /\ o.type = "text"
\* a foreground paint operation: text, stroke, shape or image
IsForeground(o) == o.op # "setRotation" /\ ~IsWhiteOut(o)

\* C9: every white redaction rectangle of every text annotation is painted
\* before the first foreground paint operation of any annotation.
C9_WhiteOutsFirst ==
    \A i, j \in 1..Len(eOps) :
        (IsForeground(eOps[i]) /\ IsWhiteOut(eOps[j])) => j < i

\* C9, the case: a run has ended that painted the white rectangles of two text
\* annotations, one of them a native edit, the text of both, and a highlight.
C9_Witness ==
    /\ ePc = "done"
    /\ Cardinality({ i \in 1..Len(eOps) : IsWhiteOut(eOps[i]) }) = 3
    /\ Cardinality({ eOps[i].ann : i \in { k \in 1..Len(eOps) : eOps[k].op = "drawText" } }) = 2
    /\ \E i \in 1..Len(eOps) : eOps[i].type = "highlight"

\* the layer order of C10, lowest first
C10_Order == <<"highlight", "shape", "image", "text", "draw", "eraser">>
C10_Rank(type) == CHOOSE k \in 1..Len(C10_Order) : C10_Order[k] = type

\* C10: the foreground paint operations are emitted in the order highlight <
\* shape < image < text < draw < eraser: whenever the type of a ranks below the
\* type of b, every paint operation of a precedes every paint operation of b.
C10_LayerOrder ==
    \A i, j \in 1..Len(eOps) :
        (/\ IsForeground(eOps[i])
         /\ IsForeground(eOps[j])
         /\ C10_Rank(eOps[i].type) < C10_Rank(eOps[j].type)) => i < j

\* C10, the case: a run has ended whose list was passed in the reverse of the
\* layer order (eraser, text, highlight), all three painted.
C10_Witness ==
    /\ ePc = "done"
    /\ Len(eAnnotations) = 3
    /\ eAnnotations[1].p.type = "eraser"
    /\ eAnnotations[2].p.type = "text"
    /\ eAnnotations[3].p.type = "highlight"
    /\ \A a \in 1..3 : \E i \in 1..Len(eOps) : IsForeground(eOps[i]) /\ eOps[i].ann = a

(***************************************************************************)
(* applyAnnotations: the order of the annotations passed.                  *)
(***************************************************************************)
\* the orderings of a list: the same annotations (with their ids) in any order
Orderings(arr) ==
    { [i \in 1..Len(arr) |-> arr[f[i]]] : f \in Permutations(1..Len(arr)) }

\* C11: a finished run has made the calls that a run passed any other ordering
\* of the same annotations makes, in the same order.
C11_OrderIndependent ==
    ePc = "done" =>
        \A other \in Orderings(eAnnotations) : applyAnnotationsOps(other) = eOps

(***************************************************************************)
(* applyAnnotations: the redaction of a native text edit.                  *)
(***************************************************************************)
\* the rectangle inner lies within the bounding box of the rectangles of the list
WithinBoundingBox(inner, rects) ==
    /\ rects # <<>>
    /\ \E i \in 1..Len(rects) : rects[i].x <= inner.x
    /\ \E i \in 1..Len(rects) : rects[i].y <= inner.y
    /\ \E i \in 1..Len(rects) : rects[i].x + rects[i].width >= inner.x + inner.width
    /\ \E i \in 1..Len(rects) : rects[i].y + rects[i].height >= inner.y + inner.height

\* a visual rectangle in the coordinates of the exported page
OnNativePage(x, y, w, h) ==
    mapToExportCoords(x, y, w, h, NativePage[1], NativePage[2], nRotation)

\* the rectangle of the original text, and the box of the text drawn now: its
\* measured width, and the height of the line drawText is positioned with
OriginalTextBox == OnNativePage(nItem.x, nItem.yTop, nItem.width, nItem.height)
DrawnTextBox ==
    OnNativePage(nAnn.x, nAnn.y, (nAnn.text.measured * nAnn.fontSize) \div 12,
                 nAnn.fontSize * 100)

\* C12: the white rectangles pass 1 paints for a native edit cover (already by
\* their bounding box) the rectangle of the original text and the box of the
\* text drawn now, whether the new text is shorter or longer than the original.
C12_RedactionCovers ==
    (nPc = "exported" /\ nAnn.isNativeEdit) =>
        /\ WithinBoundingBox(OriginalTextBox, nWhites)
        /\ WithinBoundingBox(DrawnTextBox, nWhites)

(***************************************************************************)
(* The annotation store: annotations and pages.                            *)
(***************************************************************************)
\* C13: every annotation of the live array is on a page of the document, when
\* every annotation was added on a page that was in the document at the time.
C13_PageIdsLive ==
    \A j \in 1..Len(annotations) : annotations[j].pageId \in LivePageIds

(***************************************************************************)
(* NativeTextLayer: one native edit annotation for each text group.        *)
(***************************************************************************)
\* C14: no two native edit annotations have the same pageId and the same
\* originalTextId.
C14_OneEditPerGroup ==
    \A i, j \in 1..Len(tAnns) : tAnns[i] = tAnns[j] => i = j

(***************************************************************************)
(* Stored geometry and page rotation.                                      *)
(***************************************************************************)
\* C15: the rectangle painted for a shape drawn by pointer input is the
\* rectangle that would be painted had the page kept the rotation it was shown
\* at when the shape was drawn, whatever rotation the page has at the export.
C15_RotationIndependent ==
    pPc = "exported" =>
        pOut = mapToExportCoords(pStored.x, pStored.y, pStored.width, pStored.height,
                                 PointerPage[1], PointerPage[2], pDrawnAt)

(***************************************************************************)
(* The render requests of the viewer.                                      *)
(***************************************************************************)
\* the requests whose render is in progress and has not been cancelled
LiveRenders == { r \in 1..vCount : vPc[r] \in {"getPage", "rendering"} /\ ~vCancelled[r] }

\* C16: at any time at most one render that has not been cancelled is in
\* progress on the canvas.
C16_OneLiveRender == Cardinality(LiveRenders) <= 1

\* C17: once every request has completed, nativeTextItems is the text content
\* of the most recent request.
C17_LatestTextWins ==
    (vCount > 0 /\ \A r \in 1..vCount : vPc[r] = "done") => vItems = vCount

(***************************************************************************)
(* The image cache.                                                        *)
(***************************************************************************)
\* C18: for a cache constructed with maxSize >= 1, the number of cached
\* entries never exceeds maxSize, whatever calls were made.
C18_SizeBounded == size <= iMaxSize

\* C19: the cache holds the keys of a reference LRU map given the same calls,
\* and accessOrder lists them from the least to the most recently used.
C19_RefinesLRU ==
    /\ DOMAIN iCache = { iRef[i] : i \in 1..Len(iRef) }
    /\ iOrder = iRef

(***************************************************************************)
(* The fonts of the export.                                                *)
(***************************************************************************)
\* the text with '?' for each character outside 0x20-0x7E and 0xA0-0xFF
Substituted(text) == [i \in 1..Len(text) |-> IF text[i] \in (32..126) \cup (160..255) THEN text[i] ELSE QuestionMark]
BaseFontCall(text) == IF text = <<>> THEN <<>> ELSE << [font |-> "base", text |-> Substituted(text), line |-> 0] >>

\* C20: when the Unicode fallback font cannot be fetched or embedded,
\* applyAnnotations does not throw, and once the texts are drawn each text
\* annotation has been drawn with the base font as its text with '?' for every
\* character outside 0x20-0x7E and 0xA0-0xFF.
C20_FallbackDegrades ==
    fOutcome \in FontOutcomes \ {"embedded"} =>
        /\ fPc # "thrown"
        /\ fPc \in {"drawn", "returned"} => fDrawn = BaseFontCall(fTexts[1]) \o BaseFontCall(fTexts[2])

\* a text with a CJK character and one with a line feed have been exported
\* after the fetch of the fallback font threw
C20_Witness ==
    /\ fPc = "returned"
    /\ fOutcome = "fetchThrows"
    /\ fTexts[1] = <<65, 20013>>
    /\ fTexts[2] = <<10, 233>>
    /\ fDrawn = << [font |-> "base", text |-> <<65, 63>>, line |-> 0], [font |-> "base", text |-> <<63, 233>>, line |-> 0] >>

(***************************************************************************)
(* applyAnnotations: an image that cannot be embedded.                     *)
(***************************************************************************)
\* the image annotations whose image cannot be embedded
C21_Unembeddable(a) == a.p.type = "image" /\ a.p.image \in {"bad", "gif"}
C21_Embeddable(a) == ~C21_Unembeddable(a)

\* C21: applyAnnotations does not throw on an image that cannot be embedded,
\* and a run that has ended has made exactly the calls of a run on the list
\* without those images: nothing for them, every other annotation in its layer
\* order, and the page rotations.
C21_BadImageSkipped ==
    /\ ePc # "thrown"
    /\ ePc = "done" => eOps = applyAnnotationsOps(SelectSeq(eAnnotations, C21_Embeddable))

\* C21, the case: a run has ended on a corrupt image, a text and an image that
\* is neither PNG nor JPEG; the text was painted and the page rotated.
C21_Witness ==
    /\ ePc = "done"
    /\ Len(eAnnotations) = 3
    /\ eAnnotations[1].p.image = "bad"
    /\ eAnnotations[2].p.type = "text"
    /\ eAnnotations[3].p.image = "gif"
    /\ \E i \in 1..Len(eOps) : eOps[i].op = "drawText"
    /\ eOps[Len(eOps)].op = "setRotation"

(***************************************************************************)
(* applyAnnotations: the page rotations.                                   *)
(***************************************************************************)
\* the positions in eOps of the setRotation calls on a page of the document
C22_RotationsOf(pageIndex) == { i \in 1..Len(eOps) : eOps[i].op = "setRotation" /\ eOps[i].page = pageIndex }

\* the entries of the page list that are original pages of the document
C22_OriginalInfos == { k \in 1..Len(ePagesInfo) : ePagesInfo[k].type = "original" /\ ePagesInfo[k].originalIndex \in 1..eDocPages }

\* C22: no paint operation follows a setRotation call, setRotation is called
\* only after both passes have ended, and a run that has ended has set the
\* rotation of each original page exactly once, to the rotation of its PageInfo.
C22_RotationsLast ==
    /\ \A i, j \in 1..Len(eOps) : (i < j /\ eOps[i].op = "setRotation") => eOps[j].op = "setRotation"
    /\ (\E i \in 1..Len(eOps) : eOps[i].op = "setRotation") => ePc \in {"rotate", "done"}
    /\ ePc = "done" =>
          /\ \A k \in C22_OriginalInfos :
                /\ Cardinality(C22_RotationsOf(ePagesInfo[k].originalIndex - 1)) = 1
                /\ \A i \in C22_RotationsOf(ePagesInfo[k].originalIndex - 1) : eOps[i].rotation = ePagesInfo[k].rotation
          /\ \A i \in 1..Len(eOps) : eOps[i].op = "setRotation" => \E k \in C22_OriginalInfos : eOps[i].page = ePagesInfo[k].originalIndex - 1

\* C22, the case: a run on a document of two pages has ended that painted on
\* both pages in both passes and then rotated them to 90 and 270 degrees.
C22_Witness ==
    /\ ePc = "done"
    /\ eDocPages = 2
    /\ \E i \in 1..Len(eOps) : IsWhiteOut(eOps[i]) /\ eOps[i].page = 0
    /\ \E i \in 1..Len(eOps) : eOps[i].op = "drawText" /\ eOps[i].page = 0
    /\ \E i \in 1..Len(eOps) : eOps[i].op = "drawLine" /\ eOps[i].page = 1
    /\ Len(eOps) >= 2
    /\ eOps[Len(eOps) - 1] = [op |-> "setRotation", ann |-> 0, type |-> "page", page |-> 0, rotation |-> 90]
    /\ eOps[Len(eOps)] = [op |-> "setRotation", ann |-> 0, type |-> "page", page |-> 1, rotation |-> 270]

(***************************************************************************)
(* The ids of the annotations.                                             *)
(***************************************************************************)
\* C23: no two annotations of the live array have the same id.
C23_UniqueIds == \A i, j \in 1..Len(kAnnotations) : kAnnotations[i].id = kAnnotations[j].id => i = j

(***************************************************************************)
(* The annotation store: the selection.                                    *)
(***************************************************************************)
\* C24: a call of selectAnnotation, with an id or with null, leaves the live
\* annotations array, history and historyIndex as they were.
C24_SelectKeepsHistory ==
    [][(\E id \in AnnIds \cup {NULL} : selectAnnotation(id)) => UNCHANGED <<annotations, history, historyIndex>>]_vars

\* C24, the case: annotation A was added and then selected, and the history
\* holds the one step of the addition.
C24_Witness ==
    /\ selectedAnnotation = AnnA.id
    /\ annotations = <<AnnA>>
    /\ history = << <<>>, <<AnnA>> >>
    /\ historyIndex = 1

(***************************************************************************)
(* The rotation of the pages.                                              *)
(***************************************************************************)
\* C25: the rotation of every page is one of 0, 90, 180, 270.
C25_RotationInRange == \A p \in RotatedPageIds : gRotation[p] \in {0, 90, 180, 270}

(***************************************************************************)
(* The image cache: clearByPage.                                           *)
(***************************************************************************)
\* the keys of a list in their order, without those outside a set
C26_Kept(order, keep) == SelectSeq(order, LAMBDA k : k \in keep)

C27_SelectionLive == selectedAnnotation = NULL \/ selectedAnnotation \in LiveAnnotationIds

(***************************************************************************)
(* The annotation store: the page list.                                    *)
(***************************************************************************)
\* C28: totalPages is the length of pages and, when pages is not empty,
\* currentPage is the number of one of its pages.
C28_CurrentPageExists ==
    /\ totalPages = Len(pages)
    /\ pages # <<>> => (1 <= currentPage /\ currentPage <= Len(pages))

(***************************************************************************)
(* The fonts of the export: texts of several lines.                        *)
(***************************************************************************)
\* the segments of a text between its line breaks, each with its number
C29_Segments(text) == [i \in 1..Len(SplitLines(text)) |-> [text |-> SplitLines(text)[i], line |-> i - 1]]

\* the lines of a text: its segments that are not empty
C29_Lines(text) == SelectSeq(C29_Segments(text), LAMBDA seg : seg.text # <<>>)

\* the text and the line number of each drawText call made
C29_Drawn == [i \in 1..Len(fDrawn) |-> [text |-> fDrawn[i].text, line |-> fDrawn[i].line]]

\* the characters of a line as the font chosen draws them: the base font gets
\* '?' for a character it cannot encode
C29_Glyphs(call) == IF call.font = "base" THEN Substituted(call.text) ELSE call.text

\* C29: once the texts are drawn, each text annotation has been drawn as one
\* line for each segment between its line breaks that is not empty, line i at
\* the offset of line i, whether the fallback font was loaded or not.
C29_LinesKept ==
    fPc \in {"drawn", "returned"} =>
        /\ Len(fDrawn) = Len(C29_Lines(fTexts[1])) + Len(C29_Lines(fTexts[2]))
        /\ \A i \in 1..Len(fDrawn) :
              LET expected == (C29_Lines(fTexts[1]) \o C29_Lines(fTexts[2]))[i]
              IN  /\ fDrawn[i].line = expected.line
                  /\ fDrawn[i].text = C29_Glyphs([font |-> fDrawn[i].font, text |-> expected.text])

(***************************************************************************)
(* applyAnnotations: the pages of the document and the annotations that    *)
(* are on none of them.                                                    *)
(***************************************************************************)
\* the annotation is on no page of the list, on a blank page, or on a page
\* whose originalIndex is outside the document
C30_NoPageInfo(a) == \A k \in 1..Len(ePagesInfo) : ePagesInfo[k].id # a.p.pageId
C30_OnBlankPage(a) == \E k \in 1..Len(ePagesInfo) : ePagesInfo[k].id = a.p.pageId /\ ePagesInfo[k].type = "blank"
C30_OutsideDocument(a) == \E k \in 1..Len(ePagesInfo) : ePagesInfo[k].id = a.p.pageId /\ ePagesInfo[k].type = "original" /\ ePagesInfo[k].originalIndex \notin 1..eDocPages
C30_Skipped(a) == C30_NoPageInfo(a) \/ C30_OnBlankPage(a) \/ C30_OutsideDocument(a)
C30_OnDocument(a) == ~C30_Skipped(a)

\* the calls applyAnnotations makes on a page: none of them adds, removes or
\* moves a page
C30_PageCalls == {"drawRectangle", "drawText", "drawLine", "drawCircle", "drawEllipse", "drawImage", "setRotation"}

\* C30: applyAnnotations calls only paint operations and setRotation, each
\* on a page the document has, so the pages of the document stay as they are;
\* it makes no call for an annotation on a blank page, on no page of the list
\* or on a page outside the document, no run throws, and a run that has ended
\* has made exactly the calls of a run on the list without those annotations.
C30_PagesKept ==
    /\ ePc # "thrown"
    /\ \A i \in 1..Len(eOps) :
          /\ eOps[i].op \in C30_PageCalls
          /\ eOps[i].page \in 0..(eDocPages - 1)
          /\ eOps[i].ann # 0 => C30_OnDocument(eAnnotations[eOps[i].ann])
    /\ ePc = "done" => eOps = applyAnnotationsOps(SelectSeq(eAnnotations, C30_OnDocument))

\* C30, the case: a run on a document of one page has ended whose list held a
\* highlight on a page outside the document, a text on a blank page and an
\* eraser stroke on the first page; only the eraser stroke was painted, after
\* the two others were passed over, and the page was rotated.
C30_Witness ==
    /\ ePc = "done"
    /\ eDocPages = 1
    /\ Len(eAnnotations) = 3
    /\ eAnnotations[1].p = Payload("highlight", 3, 0, FALSE, 2, "none", "none")
    /\ eAnnotations[2].p = Payload("text", 2, 1, FALSE, 0, "none", "none")
    /\ eAnnotations[3].p = Payload("eraser", 1, 0, FALSE, 2, "none", "none")
    /\ Len(eOps) = 4
    /\ \A i \in 1..3 : eOps[i].ann = 3 /\ eOps[i].page = 0
    /\ eOps[4].op = "setRotation"

====
